---- MODULE Spec2Model ----
(***************************************************************************)
(* Resume-screening agent: zod schemas (SGRSchema.ts, AgentFlow.ts), the   *)
(* tool registry and the dispatch performed by executeAgentFlow.           *)
(*                                                                         *)
(* Values are JSON values, tagged by their type.  A number is n, or n+1/2  *)
(* when half is TRUE, so that .int() and the inclusive bounds can tell     *)
(* integers from non-integers.  An object's absent key is a key outside    *)
(* the DOMAIN of its field map; reading it yields Undefined, as in JS.     *)
(***************************************************************************)
EXTENDS Integers, Sequences, FiniteSets, TLC

VARIABLES
    pc,            \* "ready": a call is pending; "done": it has returned
    call,          \* the pending or last call: which operation, on which input
    result,        \* what the call returned (NoResult while pending)
    invoked,       \* executor invocations made during the call, in order
    parsed,        \* schema.parse attempts made during the call, in order
    toolRegistry,  \* AgentFlow.ts toolRegistry: name -> [schema, execute]
    simulationCallCount,   \* LLMAgent.ts module variable
    currentCandidateType,  \* LLMAgent.ts module variable
    lastFunctionCall,  \* what step 1 of the executeAgentFlow call in call decided on
    first          \* history: the first executeAgentFlow call of a session

vars == <<pc, call, result, invoked, parsed, toolRegistry,
          simulationCallCount, currentCandidateType, lastFunctionCall, first>>

\* The variables of LLMAgent.ts, and the history kept beside them
llmVars == <<simulationCallCount, currentCandidateType>>

----------------------------------------------------------------------------
(* JSON values *)

Str(s) == [t |-> "string", s |-> s]
Num(n) == [t |-> "number", n |-> n, half |-> FALSE]
Half(n) == [t |-> "number", n |-> n, half |-> TRUE]
Bool(b) == [t |-> "boolean", b |-> b]
Null == [t |-> "null"]
Undefined == [t |-> "undefined"]
Obj(f) == [t |-> "object", f |-> f]
Arr(e) == [t |-> "array", e |-> e]

NoFields == [k \in {} |-> Null]

Key(k) == [key |-> k]
Idx(i) == [idx |-> i]

----------------------------------------------------------------------------
(* config.ts (src/unnamed/part_000) *)

fitScoreMin == 0
fitScoreMax == 100
minScreeningSteps == 3
minStrengths == 1
minSkillNameLength == 1
minEvidenceLength == 10

candidateFit == <<"strong_match", "qualified", "potential_fit", "not_qualified">>
proficiencyLevels == <<"beginner", "intermediate", "advanced", "expert">>
recommendedActions ==
    <<"advance_to_interview", "phone_screen_first", "hold_for_review", "reject">>
evaluationCategories ==
    <<"technical_skills", "experience_level", "education", "soft_skills", "culture_fit">>
degreeTypes ==
    <<"high_school", "associate", "bachelor", "master", "doctorate", "bootcamp",
      "certification">>
relevanceTypes == <<"highly_relevant", "somewhat_relevant", "not_relevant">>
candidateStatuses ==
    <<"new_application", "screening_complete", "phone_screen", "interview_scheduled",
      "interview_complete", "offer_extended", "hired", "rejected", "withdrawn">>
emailTypes ==
    <<"application_received", "phone_screen_invite", "interview_invite", "rejection",
      "offer_letter", "request_more_info">>
interviewTypes ==
    <<"phone_screen", "technical", "behavioral", "panel", "final_round",
      "hiring_manager">>
flagReasons ==
    <<"overqualified", "underqualified_but_potential", "career_changer",
      "internal_candidate", "referral", "incomplete_information", "edge_case">>
priorityLevels == <<"low", "medium", "high", "urgent">>

----------------------------------------------------------------------------
(* zod schema constructors, as the source chains them *)

Range(seq) == {seq[i] : i \in DOMAIN seq}

ZString == [kind |-> "string", checks |-> <<>>]
ZNumber == [kind |-> "number", checks |-> <<>>]
ZBoolean == [kind |-> "boolean"]
ZEnum(values) == [kind |-> "enum", values |-> values]
ZArray(element) == [kind |-> "array", element |-> element, minLength |-> <<>>]
ZObject(keys, shape) == [kind |-> "object", keys |-> keys, shape |-> shape]
ZOptional(inner) == [kind |-> "optional", inner |-> inner]

\* .min(n) on a string, a number or an array; .max(n), .int(), .email()
ZMin(schema, n) ==
    IF schema.kind = "array"
    THEN [schema EXCEPT !.minLength = <<n>>]
    ELSE [schema EXCEPT !.checks = Append(@, [check |-> "min", value |-> n])]
ZMax(schema, n) == [schema EXCEPT !.checks = Append(@, [check |-> "max", value |-> n])]
ZInt(schema) == [schema EXCEPT !.checks = Append(@, [check |-> "int", value |-> 0])]
ZEmail(schema) == [schema EXCEPT !.checks = Append(@, [check |-> "email", value |-> 0])]

----------------------------------------------------------------------------
(* SGRSchema.ts *)

CandidateFitEnum == ZEnum(candidateFit)
ProficiencyLevelEnum == ZEnum(proficiencyLevels)
RecommendedActionEnum == ZEnum(recommendedActions)
EvaluationCategoryEnum == ZEnum(evaluationCategories)
RelevanceEnum == ZEnum(relevanceTypes)
DegreeTypeEnum == ZEnum(degreeTypes)

ScreeningStepSchema ==
    ZObject(<<"step_number", "evaluation_category", "requirement_met", "evidence",
              "gap_identified">>,
            [step_number |-> ZMin(ZInt(ZNumber), 1),
             evaluation_category |-> EvaluationCategoryEnum,
             requirement_met |-> ZBoolean,
             evidence |-> ZMin(ZString, minEvidenceLength),
             gap_identified |-> ZOptional(ZString)])

ExtractedSkillSchema ==
    ZObject(<<"skill_name", "proficiency_level", "years_experience", "evidence_source">>,
            [skill_name |-> ZMin(ZString, minSkillNameLength),
             proficiency_level |-> ProficiencyLevelEnum,
             years_experience |-> ZOptional(ZMin(ZNumber, 0)),
             evidence_source |-> ZString])

SkillsAnalysisSchema ==
    ZObject(<<"technical_skills", "soft_skills", "certifications",
              "required_skills_matched", "missing_required_skills">>,
            [technical_skills |-> ZArray(ExtractedSkillSchema),
             soft_skills |-> ZArray(ZMin(ZString, 1)),
             certifications |-> ZArray(ZString),
             required_skills_matched |-> ZArray(ZString),
             missing_required_skills |-> ZArray(ZString)])

WorkExperienceAnalysisSchema ==
    ZObject(<<"company", "role", "duration_months", "relevance", "key_achievements",
              "skills_demonstrated">>,
            [company |-> ZString,
             role |-> ZString,
             duration_months |-> ZMin(ZInt(ZNumber), 0),
             relevance |-> RelevanceEnum,
             key_achievements |-> ZArray(ZString),
             skills_demonstrated |-> ZArray(ZString)])

ExperienceAnalysisSchema ==
    ZObject(<<"total_years", "relevant_years", "experience_level", "career_progression",
              "work_history">>,
            [total_years |-> ZMin(ZNumber, 0),
             relevant_years |-> ZMin(ZNumber, 0),
             experience_level |-> ZEnum(<<"entry", "mid", "senior", "lead", "executive">>),
             career_progression |->
                 ZEnum(<<"ascending", "lateral", "mixed", "early_career">>),
             work_history |-> ZArray(WorkExperienceAnalysisSchema)])

EducationEntrySchema ==
    ZObject(<<"institution", "degree", "field_of_study", "graduation_year", "relevance">>,
            [institution |-> ZString,
             degree |-> ZString,
             field_of_study |-> ZString,
             graduation_year |-> ZOptional(ZInt(ZNumber)),
             relevance |-> RelevanceEnum])

EducationAnalysisSchema ==
    ZObject(<<"highest_degree", "education_history", "meets_education_requirement">>,
            [highest_degree |-> DegreeTypeEnum,
             education_history |-> ZArray(EducationEntrySchema),
             meets_education_requirement |-> ZBoolean])

ResumeScreeningSchema ==
    ZObject(<<"candidate_id", "job_id", "overall_fit", "screening_steps",
              "skills_analysis", "experience_analysis", "education_analysis",
              "fit_score", "strengths", "concerns", "recommended_action",
              "interview_focus_areas">>,
            [candidate_id |-> ZMin(ZString, 1),
             job_id |-> ZMin(ZString, 1),
             overall_fit |-> CandidateFitEnum,
             screening_steps |-> ZMin(ZArray(ScreeningStepSchema), minScreeningSteps),
             skills_analysis |-> SkillsAnalysisSchema,
             experience_analysis |-> ExperienceAnalysisSchema,
             education_analysis |-> EducationAnalysisSchema,
             fit_score |-> ZMax(ZMin(ZNumber, fitScoreMin), fitScoreMax),
             strengths |-> ZMin(ZArray(ZMin(ZString, 1)), minStrengths),
             concerns |-> ZArray(ZString),
             recommended_action |-> RecommendedActionEnum,
             interview_focus_areas |-> ZArray(ZString)])

----------------------------------------------------------------------------
(* AgentFlow.ts: tool argument schemas *)

\* An updateATS schema that would take whole fit scores only
UpdateATSArgsSchemaWholeScores ==
    ZObject(<<"candidate_id", "job_id", "status", "fit_score", "screening_notes", "tags">>,
            [candidate_id |-> ZMin(ZString, 1),
             job_id |-> ZMin(ZString, 1),
             status |-> ZEnum(candidateStatuses),
             fit_score |-> ZOptional(ZMax(ZMin(ZInt(ZNumber), 0), 100)),
             screening_notes |-> ZOptional(ZString),
             tags |-> ZOptional(ZArray(ZString))])

UpdateATSArgsSchema ==
    ZObject(<<"candidate_id", "job_id", "status", "fit_score", "screening_notes", "tags">>,
            [candidate_id |-> ZMin(ZString, 1),
             job_id |-> ZMin(ZString, 1),
             status |-> ZEnum(candidateStatuses),
             fit_score |-> ZOptional(ZMax(ZMin(ZNumber, 0), 100)),
             screening_notes |-> ZOptional(ZString),
             tags |-> ZOptional(ZArray(ZString))])

SendCandidateEmailArgsSchema ==
    ZObject(<<"recipient_email", "email_type", "candidate_name", "job_title",
              "custom_message", "scheduled_time">>,
            [recipient_email |-> ZEmail(ZString),
             email_type |-> ZEnum(emailTypes),
             candidate_name |-> ZMin(ZString, 1),
             job_title |-> ZMin(ZString, 1),
             custom_message |-> ZOptional(ZString),
             scheduled_time |-> ZOptional(ZString)])

ScheduleInterviewArgsSchema ==
    ZObject(<<"candidate_id", "job_id", "interview_type", "interviewer_ids",
              "proposed_times", "duration_minutes", "focus_areas">>,
            [candidate_id |-> ZMin(ZString, 1),
             job_id |-> ZMin(ZString, 1),
             interview_type |-> ZEnum(interviewTypes),
             interviewer_ids |-> ZMin(ZArray(ZMin(ZString, 1)), 1),
             proposed_times |-> ZMin(ZArray(ZString), 1),
             duration_minutes |-> ZMax(ZMin(ZInt(ZNumber), 15), 480),
             focus_areas |-> ZArray(ZString)])

FlagForReviewArgsSchema ==
    ZObject(<<"candidate_id", "job_id", "flag_reason", "priority", "reviewer_notes",
              "suggested_questions">>,
            [candidate_id |-> ZMin(ZString, 1),
             job_id |-> ZMin(ZString, 1),
             flag_reason |-> ZEnum(flagReasons),
             priority |-> ZEnum(priorityLevels),
             reviewer_notes |-> ZMin(ZString, 1),
             suggested_questions |-> ZArray(ZString)])

----------------------------------------------------------------------------
(* zod: schema.parse(value).  Every issue found in one pass is collected in *)
(* the order of the walk; parse throws ZodError(issues) when there is one.  *)

Issue(code, path) == [code |-> code, path |-> path]

\* The strings of the model that z.string().email() accepts.
EmailStrings == {"alex@example.com"}
IsEmail(s) == s \in EmailStrings

\* A maximum that would exclude the bound itself
NumAtOrAbove(v, m) == v.n >= m

\* v < m and v > m for a number v (n, or n + 1/2) and an integer bound m
NumBelow(v, m) == v.n < m
NumAbove(v, m) == IF v.half THEN v.n >= m ELSE v.n > m

StringCheckFails(c, v) ==
    CASE c.check = "min" -> Len(v.s) < c.value
      [] c.check = "email" -> ~IsEmail(v.s)
      [] OTHER -> FALSE
StringCheckCode(c) == IF c.check = "min" THEN "too_small" ELSE "invalid_string"

NumberCheckFails(c, v) ==
    CASE c.check = "int" -> v.half
      [] c.check = "min" -> NumBelow(v, c.value)
      [] c.check = "max" -> NumAbove(v, c.value)
      [] OTHER -> FALSE
NumberCheckCode(c) ==
    CASE c.check = "int" -> "invalid_type"
      [] c.check = "min" -> "too_small"
      [] OTHER -> "too_big"

\* Checks that would stop at the first one that fails
RECURSIVE CheckIssuesFirstFailure(_, _, _, _)
CheckIssuesFirstFailure(schema, v, path, i) ==
    IF i > Len(schema.checks) THEN <<>>
    ELSE LET c == schema.checks[i]
             fails == IF schema.kind = "string" THEN StringCheckFails(c, v)
                      ELSE NumberCheckFails(c, v)
             code == IF schema.kind = "string" THEN StringCheckCode(c)
                     ELSE NumberCheckCode(c)
         IN IF fails THEN <<Issue(code, path)>>
            ELSE CheckIssuesFirstFailure(schema, v, path, i + 1)

\* ZodString._parse / ZodNumber._parse: every check runs, each failure is an issue
RECURSIVE CheckIssues(_, _, _, _)
CheckIssues(schema, v, path, i) ==
    IF i > Len(schema.checks) THEN <<>>
    ELSE LET c == schema.checks[i]
             fails == IF schema.kind = "string" THEN StringCheckFails(c, v)
                      ELSE NumberCheckFails(c, v)
             code == IF schema.kind = "string" THEN StringCheckCode(c)
                     ELSE NumberCheckCode(c)
         IN (IF fails THEN <<Issue(code, path)>> ELSE <<>>)
            \o CheckIssues(schema, v, path, i + 1)

\* An optional that would also take null for absence (zod's .nullish())
AbsentOrNull(v) == v.t \in {"undefined", "null"}

\* ZodOptional._parse: only undefined (a missing key) counts as absent
Absent(v) == v.t = "undefined"

\* An enum that would compare without regard to surrounding blanks and take
\* the empty string for "no value"
EnumIssuesLenient(schema, v, path) ==
    IF v.t # "string" THEN <<Issue("invalid_type", path)>>
    ELSE IF v.s # "" /\ \A m \in Range(schema.values) : v.s # m /\ v.s # m \o " "
         THEN <<Issue("invalid_enum_value", path)>>
         ELSE <<>>

\* ZodEnum._parse: a string that is one of the values
EnumIssues(schema, v, path) ==
    IF v.t # "string" THEN <<Issue("invalid_type", path)>>
    ELSE IF v.s \notin Range(schema.values)
         THEN <<Issue("invalid_enum_value", path)>>
         ELSE <<>>

\* A minimum length that would report each missing element
LengthIssuesPerMissing(schema, v, path) ==
    IF schema.minLength # <<>> /\ Len(v.e) < schema.minLength[1]
    THEN [i \in 1..(schema.minLength[1] - Len(v.e)) |-> Issue("too_small", path)]
    ELSE <<>>

\* ZodArray._parse, minLength: one issue for the array; the parse goes on
LengthIssues(schema, v, path) ==
    IF schema.minLength # <<>> /\ Len(v.e) < schema.minLength[1]
    THEN <<Issue("too_small", path)>>
    ELSE <<>>

RECURSIVE Issues(_, _, _)
RECURSIVE ObjectIssues(_, _, _, _)
RECURSIVE ArrayIssues(_, _, _, _)

\* An object walk that would report the later fields first
RECURSIVE ObjectIssuesLastFirst(_, _, _, _)
ObjectIssuesLastFirst(schema, v, path, i) ==
    IF i > Len(schema.keys) THEN <<>>
    ELSE LET k == schema.keys[i]
             field == IF k \in DOMAIN v.f THEN v.f[k] ELSE Undefined
         IN ObjectIssuesLastFirst(schema, v, path, i + 1)
            \o Issues(schema.shape[k], field, Append(path, Key(k)))

\* ZodObject._parse: each declared key in declaration order, undeclared keys skipped
ObjectIssues(schema, v, path, i) ==
    IF i > Len(schema.keys) THEN <<>>
    ELSE LET k == schema.keys[i]
             field == IF k \in DOMAIN v.f THEN v.f[k] ELSE Undefined
         IN Issues(schema.shape[k], field, Append(path, Key(k)))
            \o ObjectIssues(schema, v, path, i + 1)

\* ZodArray._parse: each element at its zero-based index
ArrayIssues(schema, v, path, i) ==
    IF i > Len(v.e) THEN <<>>
    ELSE Issues(schema.element, v.e[i], Append(path, Idx(i - 1)))
         \o ArrayIssues(schema, v, path, i + 1)

Issues(schema, v, path) ==
    CASE schema.kind = "optional" ->
           IF Absent(v) THEN <<>> ELSE Issues(schema.inner, v, path)
      [] schema.kind \in {"string", "number"} ->
           IF v.t # schema.kind THEN <<Issue("invalid_type", path)>>
           ELSE CheckIssues(schema, v, path, 1)
      [] schema.kind = "boolean" ->
           IF v.t # "boolean" THEN <<Issue("invalid_type", path)>> ELSE <<>>
      [] schema.kind = "enum" -> EnumIssues(schema, v, path)
      [] schema.kind = "array" ->
           IF v.t # "array" THEN <<Issue("invalid_type", path)>>
           ELSE LengthIssues(schema, v, path) \o ArrayIssues(schema, v, path, 1)
      [] schema.kind = "object" ->
           IF v.t # "object" THEN <<Issue("invalid_type", path)>>
           ELSE ObjectIssues(schema, v, path, 1)

\* A parse whose output would carry null for each declared key the input lacks
RECURSIVE OutputNullingAbsent(_, _)
OutputNullingAbsent(schema, v) ==
    CASE schema.kind = "optional" -> OutputNullingAbsent(schema.inner, v)
      [] schema.kind = "array" ->
           Arr([i \in DOMAIN v.e |-> OutputNullingAbsent(schema.element, v.e[i])])
      [] schema.kind = "object" ->
           Obj([k \in Range(schema.keys) |->
                   IF k \in DOMAIN v.f
                   THEN OutputNullingAbsent(schema.shape[k], v.f[k])
                   ELSE Null])
      [] OTHER -> v

\* An object schema that would keep undeclared keys (zod's .passthrough())
OutputPassthrough(schema, v) == v

\* The value parse returns for a valid input: declared keys only (unknownKeys
\* "strip"), an absent optional key stays absent.
RECURSIVE Output(_, _)
Output(schema, v) ==
    CASE schema.kind = "optional" -> Output(schema.inner, v)
      [] schema.kind = "array" ->
           Arr([i \in DOMAIN v.e |-> Output(schema.element, v.e[i])])
      [] schema.kind = "object" ->
           Obj([k \in Range(schema.keys) \cap DOMAIN v.f |->
                   Output(schema.shape[k], v.f[k])])
      [] OTHER -> v

\* A parse that would stop at the first issue
ParseFirstIssueOnly(schema, v) ==
    LET issues == Issues(schema, v, <<>>)
    IN IF issues = <<>>
       THEN [ok |-> TRUE, data |-> Output(schema, v)]
       ELSE [ok |-> FALSE, issues |-> <<Head(issues)>>]

\* A parse that would also blame the parent of each nested issue
ParseBlamingAncestors(schema, v) ==
    LET issues == Issues(schema, v, <<>>)
        nested == SelectSeq(issues, LAMBDA i : Len(i.path) > 1)
    IN IF issues = <<>>
       THEN [ok |-> TRUE, data |-> Output(schema, v)]
       ELSE [ok |-> FALSE,
             issues |-> issues \o
                 [n \in DOMAIN nested |->
                     Issue("custom", SubSeq(nested[n].path, 1, Len(nested[n].path) - 1))]]

\* schema.parse(v): the validated value, or the thrown ZodError
Parse(schema, v) ==
    LET issues == Issues(schema, v, <<>>)
    IN IF issues = <<>>
       THEN [ok |-> TRUE, data |-> Output(schema, v)]
       ELSE [ok |-> FALSE, issues |-> issues]

----------------------------------------------------------------------------
(* Payloads: the fixtures of the test suite, and the payloads obtained from *)
(* them by a few independent edits (a leaf replaced or removed, an          *)
(* undeclared field added).                                                 *)

ScreeningStep(n, category, evidence) ==
    Obj([step_number |-> Num(n), evaluation_category |-> Str(category),
         requirement_met |-> Bool(TRUE), evidence |-> Str(evidence)])

\* ReliabilityTest.test.ts "should accept valid resume screening data", without
\* the gap_identified entries
validData ==
    Obj([candidate_id |-> Str("CAND-001"),
         job_id |-> Str("JOB-001"),
         overall_fit |-> Str("strong_match"),
         screening_steps |-> Arr(<<
             ScreeningStep(1, "technical_skills",
                 "Has all required skills including TypeScript and Python"),
             ScreeningStep(2, "experience_level",
                 "7 years of relevant experience in software engineering"),
             ScreeningStep(3, "education",
                 "BS Computer Science from accredited university")>>),
         skills_analysis |-> Obj([
             technical_skills |-> Arr(<<Obj([
                 skill_name |-> Str("TypeScript"),
                 proficiency_level |-> Str("expert"),
                 years_experience |-> Num(5),
                 evidence_source |-> Str("Work history")])>>),
             soft_skills |-> Arr(<<Str("Leadership")>>),
             certifications |-> Arr(<<>>),
             required_skills_matched |-> Arr(<<Str("TypeScript")>>),
             missing_required_skills |-> Arr(<<>>)]),
         experience_analysis |-> Obj([
             total_years |-> Num(7),
             relevant_years |-> Num(7),
             experience_level |-> Str("senior"),
             career_progression |-> Str("ascending"),
             work_history |-> Arr(<<>>)]),
         education_analysis |-> Obj([
             highest_degree |-> Str("bachelor"),
             education_history |-> Arr(<<>>),
             meets_education_requirement |-> Bool(TRUE)]),
         fit_score |-> Num(90),
         strengths |-> Arr(<<Str("Strong technical background")>>),
         concerns |-> Arr(<<>>),
         recommended_action |-> Str("advance_to_interview"),
         interview_focus_areas |-> Arr(<<Str("System design")>>)])

\* "should validate individual screening steps correctly", without gap_identified
validStep ==
    ScreeningStep(1, "technical_skills",
        "Candidate has demonstrated expertise in TypeScript and Python")

\* "should validate ExtractedSkill correctly"
validSkill ==
    Obj([skill_name |-> Str("TypeScript"), proficiency_level |-> Str("expert"),
         years_experience |-> Num(5), evidence_source |-> Str("Used across all positions")])

\* "should validate UpdateATSArgs correctly", with the optional fit_score
validUpdateATSArgs ==
    Obj([candidate_id |-> Str("CAND-001"), job_id |-> Str("JOB-001"),
         status |-> Str("screening_complete"), fit_score |-> Num(90)])

\* "should validate FlagForReviewArgs correctly"
validFlagForReviewArgs ==
    Obj([candidate_id |-> Str("CAND-001"), job_id |-> Str("JOB-001"),
         flag_reason |-> Str("career_changer"), priority |-> Str("medium"),
         reviewer_notes |->
             Str("Candidate has transferable skills but needs assessment"),
         suggested_questions |-> Arr(<<Str("Ask about transition motivation")>>)])

\* Arguments that satisfy ScheduleInterviewArgsSchema and
\* SendCandidateEmailArgsSchema (the source ships no fixture for them)
validScheduleInterviewArgs ==
    Obj([candidate_id |-> Str("CAND-001"), job_id |-> Str("JOB-001"),
         interview_type |-> Str("technical"),
         interviewer_ids |-> Arr(<<Str("INT-7")>>),
         proposed_times |-> Arr(<<Str("2024-06-01T10:00:00Z")>>),
         duration_minutes |-> Num(60),
         focus_areas |-> Arr(<<Str("System design")>>)])

validSendCandidateEmailArgs ==
    Obj([recipient_email |-> Str("alex@example.com"),
         email_type |-> Str("interview_invite"),
         candidate_name |-> Str("Alex"), job_title |-> Str("Engineer")])

SchemaNames ==
    {"ResumeScreeningSchema", "ScreeningStepSchema", "ExtractedSkillSchema",
     "UpdateATSArgsSchema", "SendCandidateEmailArgsSchema",
     "ScheduleInterviewArgsSchema", "FlagForReviewArgsSchema"}

SchemaOf(name) ==
    CASE name = "ResumeScreeningSchema" -> ResumeScreeningSchema
      [] name = "ScreeningStepSchema" -> ScreeningStepSchema
      [] name = "ExtractedSkillSchema" -> ExtractedSkillSchema
      [] name = "UpdateATSArgsSchema" -> UpdateATSArgsSchema
      [] name = "SendCandidateEmailArgsSchema" -> SendCandidateEmailArgsSchema
      [] name = "ScheduleInterviewArgsSchema" -> ScheduleInterviewArgsSchema
      [] name = "FlagForReviewArgsSchema" -> FlagForReviewArgsSchema
      [] name = "CandidateFitEnum" -> CandidateFitEnum

FixtureOf(name) ==
    CASE name = "ResumeScreeningSchema" -> validData
      [] name = "ScreeningStepSchema" -> validStep
      [] name = "ExtractedSkillSchema" -> validSkill
      [] name = "UpdateATSArgsSchema" -> validUpdateATSArgs
      [] name = "SendCandidateEmailArgsSchema" -> validSendCandidateEmailArgs
      [] name = "ScheduleInterviewArgsSchema" -> validScheduleInterviewArgs
      [] name = "FlagForReviewArgsSchema" -> validFlagForReviewArgs

\* An edit of a payload: set the value at a path, or remove the key there.
\* breaks is the number of leaf constraints the edit breaks (0: a benign edit).
Edit(op, path, val, breaks) == [op |-> op, path |-> path, val |-> val, breaks |-> breaks]

HasCheck(schema, name) == \E i \in DOMAIN schema.checks : schema.checks[i].check = name
CheckValue(schema, name) ==
    (CHOOSE c \in Range(schema.checks) : c.check = name).value

Bad(val, breaks) == [val |-> val, breaks |-> breaks]

\* Values that break the constraints of a leaf whose valid value is v: a value of
\* another type, and for each bound a value that misses that bound only; for an
\* integer with a maximum also one that misses both.
BadLeafValues(schema, v) ==
    <<Bad(Null, 1)>> \o
    CASE schema.kind = "string" ->
           <<Bad(Num(7), 1)>>
           \o (IF HasCheck(schema, "min") /\ CheckValue(schema, "min") > 0
                THEN <<Bad(Str(""), 1)>> ELSE <<>>)
           \o (IF HasCheck(schema, "min") /\ CheckValue(schema, "min") > 5
                THEN <<Bad(Str("Short"), 1)>> ELSE <<>>)
           \o (IF HasCheck(schema, "email")
                THEN <<Bad(Str("not-an-email"), 1)>> ELSE <<>>)
      [] schema.kind = "number" ->
           <<Bad(Str("one"), 1)>>
           \o (IF HasCheck(schema, "min")
                THEN <<Bad(Num(CheckValue(schema, "min") - 1), 1)>> ELSE <<>>)
           \o (IF HasCheck(schema, "max")
                THEN <<Bad(Num(CheckValue(schema, "max") + 50), 1)>> ELSE <<>>)
           \o (IF HasCheck(schema, "int")
                THEN <<Bad(Half(v.n), 1)>> ELSE <<>>)
           \o (IF HasCheck(schema, "int") /\ HasCheck(schema, "max")
                THEN <<Bad(Half(CheckValue(schema, "max") + 20), 2)>> ELSE <<>>)
      [] schema.kind = "enum" -> <<Bad(Str("maybe_hired"), 1), Bad(Num(1), 1)>>
      [] schema.kind = "boolean" -> <<Bad(Str("yes"), 1)>>

\* Values that break an array whose valid value is v: a value of another type,
\* and for a minimum length the array cut below it
BadArrayValues(schema, v) ==
    <<Bad(Null, 1)>>
    \o (IF schema.minLength # <<>> /\ schema.minLength[1] > 0
         THEN <<Bad(Arr(SubSeq(v.e, 1, schema.minLength[1] - 1)), 1)>>
         ELSE <<>>)

IsLeaf(schema) ==
    LET inner == IF schema.kind = "optional" THEN schema.inner ELSE schema
    IN inner.kind \notin {"object", "array"}

RECURSIVE Concat(_)
Concat(seqs) == IF seqs = <<>> THEN <<>> ELSE Head(seqs) \o Concat(Tail(seqs))

RECURSIVE EditsOf(_, _, _)

FieldEdits(fieldSchema, v, k, path) ==
    LET p == Append(path, Key(k))
        optional == fieldSchema.kind = "optional"
    IN IF k \in DOMAIN v.f
       THEN EditsOf(fieldSchema, v.f[k], p)
            \o (IF IsLeaf(fieldSchema)
                 THEN <<Edit("del", p, Undefined, IF optional THEN 0 ELSE 1)>>
                 ELSE <<>>)
       ELSE <<Edit("set", p, Null, 1)>>

\* The edits of a valid value v of a schema, each at its path, in document order
EditsOf(schema, v, path) ==
    CASE schema.kind = "optional" -> EditsOf(schema.inner, v, path)
      [] schema.kind = "object" ->
           <<Edit("set", Append(path, Key("extra_field")), Str("extra"), 0)>>
           \o Concat([i \in DOMAIN schema.keys |->
                         FieldEdits(schema.shape[schema.keys[i]], v, schema.keys[i], path)])
      [] schema.kind = "array" ->
           LET bad == BadArrayValues(schema, v)
           IN [i \in DOMAIN bad |-> Edit("set", path, bad[i].val, bad[i].breaks)]
              \o Concat([i \in DOMAIN v.e |->
                            EditsOf(schema.element, v.e[i], Append(path, Idx(i - 1)))])
      [] OTHER ->
           LET bad == BadLeafValues(schema, v)
           IN [i \in DOMAIN bad |-> Edit("set", path, bad[i].val, bad[i].breaks)]

IsPrefix(p, q) == Len(p) <= Len(q) /\ SubSeq(q, 1, Len(p)) = p

\* No two edits on the same path or on an ancestor/descendant path
Independent(E) ==
    \A d, e \in E : d # e => ~IsPrefix(d.path, e.path) /\ ~IsPrefix(e.path, d.path)

\* The increasing sequences of at most k indices among 1..n
RECURSIVE Chains(_, _)
Chains(n, k) ==
    IF k = 0 THEN {<<>>}
    ELSE LET shorter == Chains(n, k - 1)
         IN shorter \cup
            UNION {{Append(c, i) : i \in (IF c = <<>> THEN 1 ELSE c[Len(c)] + 1)..n} :
                      c \in {s \in shorter : Len(s) = k - 1}}

\* The empty sequence, the single indices and the increasing pairs among 1..n
UpToPairs(n) ==
    {<<>>} \cup {<<i>> : i \in 1..n} \cup {c \in (1..n) \X (1..n) : c[1] < c[2]}

\* The edits of a schema's fixture, in a fixed order
FixtureEdits == [name \in SchemaNames |-> EditsOf(SchemaOf(name), FixtureOf(name), <<>>)]

RECURSIVE ApplyEdit(_, _, _)
ApplyEdit(v, path, e) ==
    IF path = <<>> THEN e.val
    ELSE LET step == path[1]
             rest == Tail(path)
         IN IF "idx" \in DOMAIN step
            THEN Arr([v.e EXCEPT ![step.idx + 1] = ApplyEdit(@, rest, e)])
            ELSE LET k == step.key
                 IN IF rest = <<>> /\ e.op = "del"
                    THEN Obj([x \in DOMAIN v.f \ {k} |-> v.f[x]])
                    ELSE Obj([x \in DOMAIN v.f \cup {k} |->
                                 IF x = k
                                 THEN ApplyEdit(IF k \in DOMAIN v.f THEN v.f[k]
                                                ELSE Undefined, rest, e)
                                 ELSE v.f[x]])

RECURSIVE ApplyEdits(_, _)
ApplyEdits(v, E) ==
    IF E = {} THEN v
    ELSE LET e == CHOOSE x \in E : TRUE
         IN ApplyEdits(ApplyEdit(v, e.path, e), E \ {e})

RECURSIVE BrokenCount(_)
BrokenCount(E) ==
    IF E = {} THEN 0
    ELSE LET e == CHOOSE x \in E : TRUE IN e.breaks + BrokenCount(E \ {e})

----------------------------------------------------------------------------
(* AgentFlow.ts: tools, registry, decision rule, executeAgentFlow *)

Returns(b) == [returns |-> b]
Throws(e) == [throws |-> e]

\* Thrown values.  ZodError, TypeError, SyntaxError and Error are instances of
\* Error; a thrown string is not.
ZodError(issues) == [class |-> "ZodError", issues |-> issues]
TypeError(message) == [class |-> "TypeError", message |-> message]
Error(message) == [class |-> "Error", message |-> message]
InstanceOfError(e) == e.class \in {"Error", "TypeError", "SyntaxError", "ZodError"}

Field(args, k) == IF args.t = "object" /\ k \in DOMAIN args.f THEN args.f[k] ELSE Undefined

Truthy(v) ==
    CASE v.t \in {"undefined", "null"} -> FALSE
      [] v.t = "string" -> v.s # ""
      [] v.t = "number" -> v.n # 0 \/ v.half
      [] v.t = "boolean" -> v.b
      [] OTHER -> TRUE

\* x.length > 0: defined for strings and arrays, undefined > 0 is false otherwise
LengthPositive(v) ==
    CASE v.t = "string" -> v.s # ""
      [] v.t = "array" -> v.e # <<>>
      [] OTHER -> FALSE

\* x.length where x is undefined or null throws; so does calling a method the value
\* does not have
NoLength(v) == v.t \in {"undefined", "null"}

updateATS(args) ==
    IF Truthy(Field(args, "screening_notes")) /\ Field(args, "screening_notes").t # "string"
    THEN Throws(TypeError("args.screening_notes.substring is not a function"))
    ELSE IF Truthy(Field(args, "tags")) /\ LengthPositive(Field(args, "tags"))
            /\ Field(args, "tags").t # "array"
    THEN Throws(TypeError("args.tags.join is not a function"))
    ELSE Returns(TRUE)

sendCandidateEmail(args) ==
    IF Truthy(Field(args, "custom_message")) /\ Field(args, "custom_message").t # "string"
    THEN Throws(TypeError("args.custom_message.substring is not a function"))
    ELSE Returns(TRUE)

scheduleInterview(args) ==
    IF Field(args, "interviewer_ids").t # "array"
    THEN Throws(TypeError("args.interviewer_ids.join is not a function"))
    ELSE IF NoLength(Field(args, "proposed_times"))
    THEN Throws(TypeError("Cannot read properties of undefined (reading 'length')"))
    ELSE IF NoLength(Field(args, "focus_areas"))
    THEN Throws(TypeError("Cannot read properties of undefined (reading 'length')"))
    ELSE IF LengthPositive(Field(args, "focus_areas"))
            /\ Field(args, "focus_areas").t # "array"
    THEN Throws(TypeError("args.focus_areas.join is not a function"))
    ELSE Returns(TRUE)

flagForReview(args) ==
    IF Field(args, "reviewer_notes").t # "string"
    THEN Throws(TypeError("args.reviewer_notes.substring is not a function"))
    ELSE IF NoLength(Field(args, "suggested_questions"))
    THEN Throws(TypeError("Cannot read properties of undefined (reading 'length')"))
    ELSE Returns(TRUE)

\* An execute function: one of the four shipped, or a stand-in with a fixed outcome
Shipped(fn) == [fn |-> fn]
Stub(outcome) == [fn |-> "stub", outcome |-> outcome]

\* Executors that would refuse to write a rejection
ExecuteRefusingRejections(execute, args) ==
    IF Field(args, "status") = Str("rejected") THEN Returns(FALSE) ELSE Returns(TRUE)

\* tool.execute(validatedArgs)
Execute(execute, args) ==
    CASE execute.fn # "stub" /\ args.t \in {"undefined", "null"} ->
           Throws(TypeError("Cannot read properties of undefined"))
      [] execute.fn = "updateATS" -> updateATS(args)
      [] execute.fn = "sendCandidateEmail" -> sendCandidateEmail(args)
      [] execute.fn = "scheduleInterview" -> scheduleInterview(args)
      [] execute.fn = "flagForReview" -> flagForReview(args)
      [] OTHER -> execute.outcome

ToolDefinition(name, schema, execute) ==
    [name |-> name, schema |-> schema, execute |-> execute]

initialToolRegistry ==
    [updateATS |->
         ToolDefinition("updateATS", "UpdateATSArgsSchema", Shipped("updateATS")),
     sendCandidateEmail |->
         ToolDefinition("sendCandidateEmail", "SendCandidateEmailArgsSchema",
                        Shipped("sendCandidateEmail")),
     scheduleInterview |->
         ToolDefinition("scheduleInterview", "ScheduleInterviewArgsSchema",
                        Shipped("scheduleInterview")),
     flagForReview |->
         ToolDefinition("flagForReview", "FlagForReviewArgsSchema",
                        Shipped("flagForReview"))]

\* array.join(sep) on an array of strings
RECURSIVE Join(_, _)
Join(e, sep) ==
    IF e = <<>> THEN ""
    ELSE IF Len(e) = 1 THEN e[1].s
    ELSE e[1].s \o sep \o Join(Tail(e), sep)

FunctionCall(name, arguments) == [function_name |-> name, arguments |-> arguments]

\* A decision rule without its final else: nothing is returned for an action
\* it does not name
simulateLLMFunctionCallWithoutDefault(screening, shouldFail) ==
    IF Field(screening, "recommended_action") = Str("advance_to_interview")
    THEN FunctionCall("updateATS",
             Obj([candidate_id |-> screening.f.candidate_id,
                  job_id |-> screening.f.job_id,
                  status |-> Str("screening_complete")]))
    ELSE IF Field(screening, "recommended_action") = Str("phone_screen_first")
    THEN FunctionCall("flagForReview",
             Obj([candidate_id |-> screening.f.candidate_id,
                  job_id |-> screening.f.job_id]))
    ELSE IF Field(screening, "recommended_action") = Str("reject")
    THEN FunctionCall("updateATS",
             Obj([candidate_id |-> screening.f.candidate_id,
                  job_id |-> screening.f.job_id,
                  status |-> Str("rejected")]))
    ELSE Undefined

\* A decision rule that would read the module's candidate type instead of the
\* payload's recommended_action
simulateLLMFunctionCallByCandidateType(screening, shouldFail) ==
    IF currentCandidateType = "strong_match"
    THEN FunctionCall("updateATS",
             Obj([candidate_id |-> screening.f.candidate_id,
                  job_id |-> screening.f.job_id,
                  status |-> Str("screening_complete")]))
    ELSE FunctionCall("updateATS",
             Obj([candidate_id |-> screening.f.candidate_id,
                  job_id |-> screening.f.job_id,
                  status |-> Str("rejected")]))

\* A decision rule that would send every screening to human review
simulateLLMFunctionCallFlagging(screening, shouldFail) ==
    FunctionCall("flagForReview",
        Obj([candidate_id |-> screening.f.candidate_id,
             job_id |-> screening.f.job_id,
             flag_reason |-> Str("edge_case"),
             priority |-> Str("medium"),
             reviewer_notes |-> Str("Needs review"),
             suggested_questions |-> screening.f.interview_focus_areas]))

simulateLLMFunctionCall(screening, shouldFail) ==
    IF shouldFail
    THEN FunctionCall("updateATS",
             Obj([candidate_id |-> Str(""),
                  job_id |-> screening.f.job_id,
                  status |-> Str("maybe_hired"),
                  fit_score |-> Num(150)]))
    ELSE IF Field(screening, "recommended_action") = Str("advance_to_interview")
    THEN FunctionCall("updateATS",
             Obj([candidate_id |-> screening.f.candidate_id,
                  job_id |-> screening.f.job_id,
                  status |-> Str("screening_complete"),
                  fit_score |-> screening.f.fit_score,
                  screening_notes |->
                      Str(screening.f.overall_fit.s \o ": "
                          \o Join(screening.f.strengths.e, "; ")),
                  tags |-> Arr(<<Str("strong_candidate"), Str("advance_to_interview")>>)]))
    ELSE IF Field(screening, "recommended_action") = Str("phone_screen_first")
    THEN FunctionCall("flagForReview",
             Obj([candidate_id |-> screening.f.candidate_id,
                  job_id |-> screening.f.job_id,
                  flag_reason |-> Str("career_changer"),
                  priority |-> Str("medium"),
                  reviewer_notes |->
                      Str("Potential fit with concerns: "
                          \o Join(screening.f.concerns.e, "; ")
                          \o ". Recommend phone screen to assess."),
                  suggested_questions |-> screening.f.interview_focus_areas]))
    ELSE FunctionCall("updateATS",
             Obj([candidate_id |-> screening.f.candidate_id,
                  job_id |-> screening.f.job_id,
                  status |-> Str("rejected"),
                  fit_score |-> screening.f.fit_score,
                  screening_notes |->
                      Str("Not qualified: " \o Join(screening.f.concerns.e, "; ")),
                  tags |-> Arr(<<Str("auto_rejected"),
                                 Str("does_not_meet_requirements")>>)]))

\* Property names every JS object inherits from Object.prototype:
\* toolRegistry[name] finds them although the registry does not declare them.
ObjectPrototypeNames == {"constructor", "toString", "hasOwnProperty", "__proto__"}

\* toolRegistry[functionCall.function_name]
Lookup(registry, name) ==
    IF name \in DOMAIN registry THEN registry[name]
    ELSE IF name \in ObjectPrototypeNames THEN [inherited |-> name]
    ELSE Undefined

Settled(value, invocations, parses) ==
    [result |-> [settled |-> "fulfilled", value |-> value],
     invoked |-> invocations, parsed |-> parses]

\* A catch block that would rethrow what is no ZodError: the promise rejects
CatchRethrowing(e, invocations, parses) ==
    IF e.class = "ZodError"
    THEN Settled([success |-> FALSE,
                  error |-> [type |-> "validation_error",
                             message |-> [json |-> e.issues],
                             details |-> e.issues]],
                 invocations, parses)
    ELSE [result |-> [settled |-> "rejected", reason |-> e],
          invoked |-> invocations, parsed |-> parses]

\* A catch block that would also name the function whose executor threw
CatchNamingFunction(e, invocations, parses) ==
    LET error == [type |-> IF e.class = "ZodError" THEN "validation_error"
                           ELSE "execution_error",
                  message |-> IF e.class = "ZodError" THEN [json |-> e.issues]
                              ELSE [text |-> IF InstanceOfError(e) THEN e.message
                                             ELSE "Unknown error"]]
    IN IF invocations = <<>>
       THEN Settled([success |-> FALSE, error |-> error], invocations, parses)
       ELSE Settled([success |-> FALSE, functionCalled |-> invocations[1].tool,
                     error |-> error],
                    invocations, parses)

\* The catch block of executeAgentFlow
Catch(e, invocations, parses) ==
    IF e.class = "ZodError"
    THEN Settled([success |-> FALSE,
                  error |-> [type |-> "validation_error",
                             message |-> [json |-> e.issues],
                             details |-> e.issues]],
                 invocations, parses)
    ELSE Settled([success |-> FALSE,
                  error |-> [type |-> "execution_error",
                             message |-> [text |-> IF InstanceOfError(e) THEN e.message
                                                   ELSE "Unknown error"]]],
                 invocations, parses)

\* A dispatch that would execute before it reports invalid arguments
DispatchExecutingInvalid(functionCall, registry) ==
    LET name == functionCall.function_name
        tool == Lookup(registry, name)
    IN IF tool = Undefined
       THEN Settled([success |-> FALSE,
                     error |-> [type |-> "unknown_function",
                                message |-> [text |-> "Unknown function: " \o name]]],
                    <<>>, <<>>)
       ELSE IF "schema" \notin DOMAIN tool
       THEN Catch(TypeError("Cannot read properties of undefined (reading 'parse')"),
                  <<>>, <<>>)
       ELSE LET attempt == [schema |-> tool.schema, raw |-> functionCall.arguments]
                validation == Parse(SchemaOf(tool.schema), functionCall.arguments)
                args == IF validation.ok THEN validation.data
                        ELSE functionCall.arguments
                invocation == [tool |-> name, execute |-> tool.execute, args |-> args]
                outcome == Execute(tool.execute, args)
            IN IF ~validation.ok
               THEN Catch(ZodError(validation.issues), <<invocation>>, <<attempt>>)
               ELSE IF "returns" \in DOMAIN outcome
               THEN Settled([success |-> outcome.returns, functionCalled |-> name],
                            <<invocation>>, <<attempt>>)
               ELSE Catch(outcome.throws, <<invocation>>, <<attempt>>)

\* A dispatch that would hand the raw arguments to the execute function
DispatchPassingRaw(functionCall, registry) ==
    LET name == functionCall.function_name
        tool == Lookup(registry, name)
    IN IF tool = Undefined
       THEN Settled([success |-> FALSE,
                     error |-> [type |-> "unknown_function",
                                message |-> [text |-> "Unknown function: " \o name]]],
                    <<>>, <<>>)
       ELSE IF "schema" \notin DOMAIN tool
       THEN Catch(TypeError("Cannot read properties of undefined (reading 'parse')"),
                  <<>>, <<>>)
       ELSE LET attempt == [schema |-> tool.schema, raw |-> functionCall.arguments]
                validation == Parse(SchemaOf(tool.schema), functionCall.arguments)
                invocation == [tool |-> name, execute |-> tool.execute,
                               args |-> functionCall.arguments]
                outcome == Execute(tool.execute, functionCall.arguments)
            IN IF ~validation.ok
               THEN Catch(ZodError(validation.issues), <<>>, <<attempt>>)
               ELSE IF "returns" \in DOMAIN outcome
               THEN Settled([success |-> outcome.returns, functionCalled |-> name],
                            <<invocation>>, <<attempt>>)
               ELSE Catch(outcome.throws, <<invocation>>, <<attempt>>)

\* executeAgentFlow from "Step 2" on: look the function up, validate its
\* arguments, execute it with the validated arguments.
Dispatch(functionCall, registry) ==
    LET name == functionCall.function_name
        tool == Lookup(registry, name)
    IN IF tool = Undefined
       THEN Settled([success |-> FALSE,
                     error |-> [type |-> "unknown_function",
                                message |-> [text |-> "Unknown function: " \o name]]],
                    <<>>, <<>>)
       ELSE IF "schema" \notin DOMAIN tool
       THEN Catch(TypeError("Cannot read properties of undefined (reading 'parse')"),
                  <<>>, <<>>)
       ELSE LET attempt == [schema |-> tool.schema, raw |-> functionCall.arguments]
                validation == Parse(SchemaOf(tool.schema), functionCall.arguments)
            IN IF ~validation.ok
               THEN Catch(ZodError(validation.issues), <<>>, <<attempt>>)
               ELSE LET validatedArgs == validation.data
                        invocation == [tool |-> name, execute |-> tool.execute,
                                       args |-> validatedArgs]
                        outcome == Execute(tool.execute, validatedArgs)
                    IN IF "returns" \in DOMAIN outcome
                       THEN Settled([success |-> outcome.returns,
                                     functionCalled |-> name],
                                    <<invocation>>, <<attempt>>)
                       ELSE Catch(outcome.throws, <<invocation>>, <<attempt>>)

\* An executeAgentFlow that would keep its decision in a module variable and
\* dispatch whatever decision it finds there
executeAgentFlowSharingDecision(screening, forceInvalidCall, registry) ==
    Dispatch(IF "function_name" \in DOMAIN lastFunctionCall THEN lastFunctionCall
             ELSE simulateLLMFunctionCall(screening, forceInvalidCall),
             registry)

executeAgentFlow(screening, forceInvalidCall, registry) ==
    Dispatch(simulateLLMFunctionCall(screening, forceInvalidCall), registry)

\* A dispatch that would use each registration once and drop it
AfterDispatchConsuming(registry, functionCall) ==
    [n \in DOMAIN registry \ {functionCall.function_name} |-> registry[n]]

\* The registry after executeAgentFlow has dispatched functionCall: the function
\* reads toolRegistry[name], tool.schema and tool.execute and assigns to none
AfterDispatch(registry, functionCall) == registry

\* zodToJsonSchema(schema): the JSON Schema of a zod schema; the fields of an
\* object that are not optional are its required ones
RECURSIVE zodToJsonSchema(_)
zodToJsonSchema(schema) ==
    CASE schema.kind = "optional" -> zodToJsonSchema(schema.inner)
      [] schema.kind = "string" ->
            [type |-> "string"]
            @@ (IF HasCheck(schema, "min")
                THEN [minLength |-> CheckValue(schema, "min")] ELSE NoFields)
            @@ (IF HasCheck(schema, "email") THEN [format |-> "email"] ELSE NoFields)
      [] schema.kind = "number" ->
            [type |-> IF HasCheck(schema, "int") THEN "integer" ELSE "number"]
            @@ (IF HasCheck(schema, "min")
                THEN [minimum |-> CheckValue(schema, "min")] ELSE NoFields)
            @@ (IF HasCheck(schema, "max")
                THEN [maximum |-> CheckValue(schema, "max")] ELSE NoFields)
      [] schema.kind = "boolean" -> [type |-> "boolean"]
      [] schema.kind = "enum" -> [type |-> "string", enum |-> schema.values]
      [] schema.kind = "array" ->
            [type |-> "array", items |-> zodToJsonSchema(schema.element)]
            @@ (IF schema.minLength # <<>>
                THEN [minItems |-> schema.minLength[1]] ELSE NoFields)
      [] schema.kind = "object" ->
            [type |-> "object",
             properties |-> [k \in Range(schema.keys) |->
                                zodToJsonSchema(schema.shape[k])],
             required |-> SelectSeq(schema.keys,
                                    LAMBDA k : schema.shape[k].kind # "optional"),
             additionalProperties |-> FALSE]

\* Object.values(toolRegistry): the shipped tools in the order of their declaration
ToolNames == <<"updateATS", "sendCandidateEmail", "scheduleInterview", "flagForReview">>

generateToolDefinitionsForLLM(registry) ==
    LET names == SelectSeq(ToolNames, LAMBDA n : n \in DOMAIN registry)
    IN [i \in DOMAIN names |->
           [type |-> "function",
            function |-> [name |-> registry[names[i]].name,
                          parameters |->
                              zodToJsonSchema(SchemaOf(registry[names[i]].schema))]]]

----------------------------------------------------------------------------
(* LLMAgent.ts: module state *)

CandidateTypes == {"strong_match", "potential_fit", "not_qualified"}

\* let simulationCallCount = 0; let currentCandidateType = 'strong_match'
InitLLMAgent ==
    /\ simulationCallCount = 0
    /\ currentCandidateType = "strong_match"

\* config.ts simulationConfig
tokenCountSuccess == 350
tokenCountFailure == 150
modelVersion == "simulated-resume-screener-v1"

Step(n, category, met, evidence) ==
    Obj([step_number |-> Num(n), evaluation_category |-> Str(category),
         requirement_met |-> Bool(met), evidence |-> Str(evidence)])

StepWithGap(n, category, met, evidence, gap) ==
    Obj([step_number |-> Num(n), evaluation_category |-> Str(category),
         requirement_met |-> Bool(met), evidence |-> Str(evidence),
         gap_identified |-> Str(gap)])

Skill(name, level, years, source) ==
    Obj([skill_name |-> Str(name), proficiency_level |-> Str(level),
         years_experience |-> Num(years), evidence_source |-> Str(source)])

SkillWithoutYears(name, level, source) ==
    Obj([skill_name |-> Str(name), proficiency_level |-> Str(level),
         evidence_source |-> Str(source)])

Strings(names) == Arr([i \in DOMAIN names |-> Str(names[i])])

Work(company, role, months, relevance, achievements, skills) ==
    Obj([company |-> Str(company), role |-> Str(role),
         duration_months |-> Num(months), relevance |-> Str(relevance),
         key_achievements |-> Strings(achievements),
         skills_demonstrated |-> Strings(skills)])

Education(institution, degree, field, year, relevance) ==
    Obj([institution |-> Str(institution), degree |-> Str(degree),
         field_of_study |-> Str(field), graduation_year |-> Num(year),
         relevance |-> Str(relevance)])

\* generateScreeningResult: the switch on currentCandidateType, here the
\* parameter candidateType.  total_years 0.75 is Half(0), a number between 0 and 1.
generateScreeningResult(candidateType, candidateId, jobId) ==
    CASE candidateType = "strong_match" ->
        Obj([candidate_id |-> Str(candidateId),
             job_id |-> Str(jobId),
             overall_fit |-> Str("strong_match"),
             screening_steps |-> Arr(<<
                 Step(1, "technical_skills", TRUE,
                      "Candidate has 7 years of TypeScript and Python experience, with AWS and Kubernetes certifications. Led microservices migration at TechCorp."),
                 Step(2, "experience_level", TRUE,
                      "Total of 7 years professional experience, including 3 years as Senior Engineer with team leadership responsibilities. Exceeds the 5+ years requirement."),
                 Step(3, "education", TRUE,
                      "B.S. Computer Science from UC Berkeley (GPA 3.7), meeting the degree requirement.")>>),
             skills_analysis |-> Obj([
                 technical_skills |-> Arr(<<
                     Skill("TypeScript", "expert", 5, "Used across all three positions"),
                     Skill("Python", "advanced", 7, "Built data pipeline at StartupXYZ"),
                     Skill("AWS", "advanced", 4, "AWS Solutions Architect certification"),
                     Skill("Kubernetes", "advanced", 3, "CKA certified")>>),
                 soft_skills |-> Strings(<<"Leadership", "Mentorship",
                                           "Technical Communication">>),
                 certifications |-> Strings(<<"AWS Solutions Architect Professional",
                                              "CKA">>),
                 required_skills_matched |->
                     Strings(<<"TypeScript", "Python", "AWS", "Distributed Systems",
                               "Cloud Platforms">>),
                 missing_required_skills |-> Arr(<<>>)]),
             experience_analysis |-> Obj([
                 total_years |-> Num(7),
                 relevant_years |-> Num(7),
                 experience_level |-> Str("senior"),
                 career_progression |-> Str("ascending"),
                 work_history |-> Arr(<<
                     Work("TechCorp Inc.", "Senior Software Engineer", 36,
                          "highly_relevant",
                          <<"Led microservices migration", "Mentored 3 engineers">>,
                          <<"TypeScript", "Kubernetes", "Leadership">>)>>)]),
             education_analysis |-> Obj([
                 highest_degree |-> Str("bachelor"),
                 education_history |-> Arr(<<
                     Education("UC Berkeley", "B.S. Computer Science",
                               "Computer Science", 2016, "highly_relevant")>>),
                 meets_education_requirement |-> Bool(TRUE)]),
             fit_score |-> Num(92),
             strengths |-> Strings(<<
                 "Exceeds experience requirement with 7 years in relevant roles",
                 "Has all required technical skills plus preferred Kubernetes experience",
                 "Proven leadership and mentorship track record">>),
             concerns |-> Arr(<<>>),
             recommended_action |-> Str("advance_to_interview"),
             interview_focus_areas |->
                 Strings(<<"Architecture decisions", "Team leadership style",
                           "Career goals">>)])
      [] candidateType = "potential_fit" ->
        Obj([candidate_id |-> Str(candidateId),
             job_id |-> Str(jobId),
             overall_fit |-> Str("potential_fit"),
             screening_steps |-> Arr(<<
                 StepWithGap(1, "technical_skills", FALSE,
                      "Candidate has Python and JavaScript/TypeScript skills from bootcamp and data analyst role. Built full-stack projects but lacks production experience.",
                      "No production experience with distributed systems or cloud platforms"),
                 StepWithGap(2, "experience_level", FALSE,
                      "Total 4 years professional experience, but only in data analyst roles. Software development experience limited to bootcamp projects.",
                      "Does not meet 5+ years software development requirement"),
                 StepWithGap(3, "education", FALSE,
                      "B.A. Economics plus bootcamp certificate. No formal CS education.",
                      "Does not have CS degree, though bootcamp provides relevant training")>>),
             skills_analysis |-> Obj([
                 technical_skills |-> Arr(<<
                     Skill("Python", "intermediate", 2, "Automation scripts at Analytics Co."),
                     Skill("JavaScript", "intermediate", 1, "Bootcamp projects"),
                     Skill("React", "beginner", 1, "E-commerce portfolio project"),
                     Skill("SQL", "advanced", 4, "Daily use as data analyst")>>),
                 soft_skills |-> Strings(<<"Analytical Thinking", "Problem Solving",
                                           "Cross-team Collaboration">>),
                 certifications |-> Arr(<<>>),
                 required_skills_matched |-> Strings(<<"Python", "TypeScript/JavaScript">>),
                 missing_required_skills |->
                     Strings(<<"Cloud Platforms", "Distributed Systems">>)]),
             experience_analysis |-> Obj([
                 total_years |-> Num(4),
                 relevant_years |-> Num(1),
                 experience_level |-> Str("entry"),
                 career_progression |-> Str("mixed"),
                 work_history |-> Arr(<<
                     Work("Analytics Co.", "Senior Data Analyst", 42, "somewhat_relevant",
                          <<"Built Python automation", "Created SQL dashboards">>,
                          <<"Python", "SQL", "Data Analysis">>)>>)]),
             education_analysis |-> Obj([
                 highest_degree |-> Str("bachelor"),
                 education_history |-> Arr(<<
                     Education("State University", "B.A. Economics", "Economics", 2018,
                               "not_relevant"),
                     Education("CodeCamp Bootcamp", "Certificate",
                               "Full Stack Development", 2023, "highly_relevant")>>),
                 meets_education_requirement |-> Bool(FALSE)]),
             fit_score |-> Num(45),
             strengths |-> Strings(<<
                 "Strong analytical background from data analyst experience",
                 "Self-motivated learner who completed bootcamp while working",
                 "Has working knowledge of core technologies">>),
             concerns |-> Strings(<<
                 "Lacks production software engineering experience",
                 "No cloud or distributed systems experience",
                 "May need significant ramp-up time">>),
             recommended_action |-> Str("phone_screen_first"),
             interview_focus_areas |->
                 Strings(<<"Transferable skills", "Learning velocity",
                           "Technical project deep-dive">>)])
      [] OTHER ->
        Obj([candidate_id |-> Str(candidateId),
             job_id |-> Str(jobId),
             overall_fit |-> Str("not_qualified"),
             screening_steps |-> Arr(<<
                 StepWithGap(1, "technical_skills", FALSE,
                      "Candidate lists only HTML, CSS, and basic JavaScript. No experience with required technologies (TypeScript, Python, cloud platforms).",
                      "Missing all required technical skills for senior role"),
                 StepWithGap(2, "experience_level", FALSE,
                      "Only 9 months of student worker experience in IT help desk. No professional software development experience.",
                      "Requires 5+ years experience, candidate has less than 1 year in non-engineering role"),
                 StepWithGap(3, "education", FALSE,
                      "A.S. General Studies from Community College. No CS education or relevant technical certifications.",
                      "Does not meet education requirement")>>),
             skills_analysis |-> Obj([
                 technical_skills |-> Arr(<<
                     SkillWithoutYears("HTML", "beginner", "Personal portfolio"),
                     SkillWithoutYears("CSS", "beginner", "Personal portfolio"),
                     SkillWithoutYears("JavaScript", "beginner", "Listed as \"basic\"")>>),
                 soft_skills |-> Strings(<<"Customer Service", "Communication">>),
                 certifications |-> Arr(<<>>),
                 required_skills_matched |-> Arr(<<>>),
                 missing_required_skills |->
                     Strings(<<"TypeScript", "Python", "Cloud Platforms",
                               "Distributed Systems">>)]),
             experience_analysis |-> Obj([
                 total_years |-> Half(0),
                 relevant_years |-> Num(0),
                 experience_level |-> Str("entry"),
                 career_progression |-> Str("early_career"),
                 work_history |-> Arr(<<
                     Work("Campus IT Help Desk", "Student Worker", 9, "not_relevant",
                          <<"Technical support", "Documentation">>,
                          <<"Customer Service", "Troubleshooting">>)>>)]),
             education_analysis |-> Obj([
                 highest_degree |-> Str("associate"),
                 education_history |-> Arr(<<
                     Education("Community College", "A.S. General Studies",
                               "General Studies", 2023, "not_relevant")>>),
                 meets_education_requirement |-> Bool(FALSE)]),
             fit_score |-> Num(15),
             strengths |-> Strings(<<"Shows enthusiasm and eagerness to learn">>),
             concerns |-> Strings(<<
                 "No professional software development experience",
                 "Missing all required technical skills",
                 "Education does not meet requirements",
                 "This is a senior role requiring 5+ years experience">>),
             recommended_action |-> Str("reject"),
             interview_focus_areas |-> Arr(<<>>)])

\* simulateLLMCall, forceFailure: the malformed response object
malformedResponse(candidateId, jobId) ==
    Obj([candidate_id |-> Str(candidateId),
         job_id |-> Str(jobId),
         overall_fit |-> Str("maybe_qualified"),
         screening_steps |-> Arr(<<
             Obj([step_number |-> Str("one"),
                  evaluation_category |-> Str("skills"),
                  requirement_met |-> Str("yes"),
                  evidence |-> Str("Short")])>>),
         fit_score |-> Num(150)])

----------------------------------------------------------------------------
(* JSON text.  A text is the sequence of its tokens: the six structural    *)
(* characters, literals (a string, a number, true, false, null), and words *)
(* that are no JSON at all.                                                *)

Punct(c) == [tok |-> c]
Lit(v) == [tok |-> "literal", v |-> v]
Word(w) == [tok |-> "word", w |-> w]

RECURSIVE Stringify(_)
RECURSIVE StringifyElements(_, _)
RECURSIVE StringifyMembers(_, _, _)

\* JSON.stringify(value) for a value that is not undefined
Stringify(v) ==
    CASE v.t = "array" ->
            <<Punct("[")>> \o StringifyElements(v.e, 1) \o <<Punct("]")>>
      [] v.t = "object" ->
            <<Punct("{")>>
            \o StringifyMembers(v.f, {k \in DOMAIN v.f : v.f[k] # Undefined}, TRUE)
            \o <<Punct("}")>>
      [] OTHER -> <<Lit(v)>>

\* the elements of an array, an undefined one written as null
StringifyElements(e, i) ==
    IF i > Len(e) THEN <<>>
    ELSE (IF i > 1 THEN <<Punct(",")>> ELSE <<>>)
         \o (IF e[i] = Undefined THEN <<Lit(Null)>> ELSE Stringify(e[i]))
         \o StringifyElements(e, i + 1)

\* the properties of an object, undefined ones left out
StringifyMembers(f, keys, isFirst) ==
    IF keys = {} THEN <<>>
    ELSE LET k == CHOOSE key \in keys : TRUE
         IN (IF isFirst THEN <<>> ELSE <<Punct(",")>>)
            \o <<Lit(Str(k)), Punct(":")>> \o Stringify(f[k])
            \o StringifyMembers(f, keys \ {k}, FALSE)

At(text, i) == IF i \in 1..Len(text) THEN text[i] ELSE [tok |-> "end"]

Unexpected(text, i) == [ok |-> FALSE, atEnd |-> i > Len(text)]

RECURSIVE ParseValue(_, _)
RECURSIVE ParseElements(_, _, _)
RECURSIVE ParseMembers(_, _, _)

\* The JSON value that starts at token i, and the position after it
ParseValue(text, i) ==
    LET token == At(text, i)
    IN CASE token.tok = "literal" -> [ok |-> TRUE, value |-> token.v, next |-> i + 1]
         [] token.tok = "[" ->
               IF At(text, i + 1).tok = "]"
               THEN [ok |-> TRUE, value |-> Arr(<<>>), next |-> i + 2]
               ELSE ParseElements(text, i + 1, <<>>)
         [] token.tok = "{" ->
               IF At(text, i + 1).tok = "}"
               THEN [ok |-> TRUE, value |-> Obj(NoFields), next |-> i + 2]
               ELSE ParseMembers(text, i + 1, NoFields)
         [] OTHER -> Unexpected(text, i)

\* An element at token i, then a comma and more elements, or the closing bracket
ParseElements(text, i, acc) ==
    LET element == ParseValue(text, i)
    IN IF ~element.ok THEN element
       ELSE CASE At(text, element.next).tok = "," ->
                    ParseElements(text, element.next + 1, Append(acc, element.value))
              [] At(text, element.next).tok = "]" ->
                    [ok |-> TRUE, value |-> Arr(Append(acc, element.value)),
                     next |-> element.next + 1]
              [] OTHER -> Unexpected(text, element.next)

\* A "key": value member at token i, then a comma and more members, or the
\* closing brace; a repeated key keeps its last value
ParseMembers(text, i, acc) ==
    LET key == At(text, i)
    IN IF ~(key.tok = "literal" /\ key.v.t = "string") THEN Unexpected(text, i)
       ELSE IF At(text, i + 1).tok # ":" THEN Unexpected(text, i + 1)
       ELSE LET member == ParseValue(text, i + 2)
                fields == IF member.ok
                          THEN [k \in DOMAIN acc \cup {key.v.s} |->
                                   IF k = key.v.s THEN member.value ELSE acc[k]]
                          ELSE acc
            IN IF ~member.ok THEN member
               ELSE CASE At(text, member.next).tok = "," ->
                            ParseMembers(text, member.next + 1, fields)
                      [] At(text, member.next).tok = "}" ->
                            [ok |-> TRUE, value |-> Obj(fields),
                             next |-> member.next + 1]
                      [] OTHER -> Unexpected(text, member.next)

SyntaxError(message) == [class |-> "SyntaxError", message |-> message]

\* JSON.parse(text): one value and nothing after it, or a SyntaxError
JSONParse(text) ==
    LET parse == ParseValue(text, 1)
    IN IF ~parse.ok
       THEN Throws(SyntaxError(IF parse.atEnd THEN "Unexpected end of JSON input"
                               ELSE "Unexpected token"))
       ELSE IF parse.next # Len(text) + 1
       THEN Throws(SyntaxError("Unexpected non-whitespace character after JSON"))
       ELSE Returns(parse.value)

----------------------------------------------------------------------------
(* LLMAgent.ts: the simulated LLM call and runResumeScreening *)

LLMResponse(rawContent, tokensUsed) ==
    [success |-> TRUE, rawContent |-> rawContent,
     metadata |-> [model |-> modelVersion, tokensUsed |-> tokensUsed]]

\* A simulated LLM that would answer for a strong match whatever type is set
simulateLLMCallIgnoringType(candidateType, candidateId, jobId, forceFailure) ==
    IF forceFailure
    THEN LLMResponse(Stringify(malformedResponse(candidateId, jobId)), tokenCountFailure)
    ELSE LLMResponse(Stringify(generateScreeningResult("strong_match", candidateId, jobId)),
                     tokenCountSuccess)

\* simulateLLMCall without its count: what it returns, candidateType being the
\* value of currentCandidateType
simulateLLMCall(candidateType, candidateId, jobId, forceFailure) ==
    IF forceFailure
    THEN LLMResponse(Stringify(malformedResponse(candidateId, jobId)), tokenCountFailure)
    ELSE LLMResponse(Stringify(generateScreeningResult(candidateType, candidateId, jobId)),
                     tokenCountSuccess)

\* A response handling without the catch of step 6: the ZodError of the
\* schema's parse would leave runResumeScreening as a rejection
ValidateResponseThrowing(llmResponse) ==
    LET parsedJson == JSONParse(llmResponse.rawContent)
    IN IF "throws" \in DOMAIN parsedJson
       THEN Settled([success |-> FALSE,
                     error |-> [type |-> "parse_error",
                                message |-> [text |-> "Failed to parse JSON: "
                                                \o parsedJson.throws.message]],
                     rawResponse |-> llmResponse.rawContent],
                    <<>>, <<>>)
       ELSE LET attempt == [schema |-> "ResumeScreeningSchema",
                            raw |-> parsedJson.returns]
                validation == Parse(ResumeScreeningSchema, parsedJson.returns)
            IN IF validation.ok
               THEN Settled([success |-> TRUE,
                             data |-> validation.data,
                             rawResponse |-> llmResponse.rawContent],
                            <<>>, <<attempt>>)
               ELSE [result |-> [settled |-> "rejected",
                                 reason |-> ZodError(validation.issues)],
                     invoked |-> <<>>, parsed |-> <<attempt>>]

\* A response handling with one catch around JSON.parse and the schema's parse,
\* which would report every failure as a validation error
ValidateResponseOneCatch(llmResponse) ==
    LET parsedJson == JSONParse(llmResponse.rawContent)
        attempt == [schema |-> "ResumeScreeningSchema",
                    raw |-> IF "returns" \in DOMAIN parsedJson
                            THEN parsedJson.returns ELSE Undefined]
        validation == Parse(ResumeScreeningSchema, attempt.raw)
    IN IF validation.ok
       THEN Settled([success |-> TRUE,
                     data |-> validation.data,
                     rawResponse |-> llmResponse.rawContent],
                    <<>>, <<attempt>>)
       ELSE Settled([success |-> FALSE,
                     error |-> [type |-> "validation_error",
                                message |-> [json |-> validation.issues],
                                details |-> validation.issues],
                     rawResponse |-> llmResponse.rawContent],
                    <<>>, <<attempt>>)

\* runResumeScreening from the check of llmResponse.success on (steps 5 and 6)
ValidateResponse(llmResponse) ==
    IF ~llmResponse.success
    THEN Settled([success |-> FALSE,
                  error |-> [type |-> "parse_error",
                             message |-> [text |-> "LLM API call failed"]],
                  rawResponse |-> llmResponse.rawContent],
                 <<>>, <<>>)
    ELSE LET parsedJson == JSONParse(llmResponse.rawContent)
         IN IF "throws" \in DOMAIN parsedJson
            THEN Settled([success |-> FALSE,
                          error |-> [type |-> "parse_error",
                                     message |-> [text |-> "Failed to parse JSON: "
                                         \o (IF InstanceOfError(parsedJson.throws)
                                             THEN parsedJson.throws.message
                                             ELSE "Unknown error")]],
                          rawResponse |-> llmResponse.rawContent],
                         <<>>, <<>>)
            ELSE LET attempt == [schema |-> "ResumeScreeningSchema",
                                 raw |-> parsedJson.returns]
                     validation == Parse(ResumeScreeningSchema, parsedJson.returns)
                 IN IF validation.ok
                    THEN Settled([success |-> TRUE,
                                  data |-> validation.data,
                                  rawResponse |-> llmResponse.rawContent],
                                 <<>>, <<attempt>>)
                    ELSE Settled([success |-> FALSE,
                                  error |-> [type |-> "validation_error",
                                             message |-> [json |-> validation.issues],
                                             details |-> validation.issues],
                                  rawResponse |-> llmResponse.rawContent],
                                 <<>>, <<attempt>>)

\* runResumeScreening(resume, job, forceFailure): of the resume and the job only
\* candidateId and jobId reach the simulated LLM
runResumeScreening(candidateType, resume, job, forceFailure) ==
    ValidateResponse(simulateLLMCall(candidateType, resume.candidateId, job.jobId,
                                     forceFailure))

\* examples/resumes.ts and examples/jobDescriptions.ts
Resumes == {[candidateId |-> id] : id \in {"CAND-001", "CAND-002", "CAND-003"}}
Jobs == {[jobId |-> id] : id \in {"JOB-2024-001", "JOB-2024-002"}}

----------------------------------------------------------------------------
(* Inputs *)

MaxEdits == 3

NoResult == [none |-> TRUE]
NoCall == [op |-> "none"]

\* Which of a fixture's edits are applied together: up to MaxEdits of them, and
\* for the whole screening document one or two
EditChains(name) ==
    IF name = "ResumeScreeningSchema"
    THEN UpToPairs(Len(FixtureEdits[name]))
    ELSE Chains(Len(FixtureEdits[name]), MaxEdits)

\* A direct schema.parse(input) call, as the test suite makes them: the schema's
\* fixture under a set E of edits
ParseCall(name, E) ==
    [op |-> "parse", schema |-> name, input |-> ApplyEdits(FixtureOf(name), E),
     edits |-> E]

\* Function calls an LLM may emit: a registered tool with its fixture under a set
\* of edits, or a name the registry does not declare
DispatchCall(name, arguments, E) ==
    [op |-> "dispatch", functionCall |-> FunctionCall(name, arguments), edits |-> E]

UnregisteredNames == {"doesNotExist"} \cup ObjectPrototypeNames

\* What a replaced execute function may do: return false, or throw
StubOutcomes ==
    {Returns(FALSE),
     Throws(Error("ATS unavailable")),
     Throws(ZodError(<<Issue("custom", <<Key("record")>>)>>)),
     Throws([class |-> "string", value |-> "boom"])}

Registries ==
    {initialToolRegistry} \cup
    {[n \in DOMAIN initialToolRegistry |->
         [initialToolRegistry[n] EXCEPT !.execute = Stub(o)]] : o \in StubOutcomes}

\* ReliabilityTest.test.ts, validScreening of the AgentFlow tests: of type
\* ResumeScreening (the evidence of its third step is shorter than the schema asks)
validScreening ==
    Obj([candidate_id |-> Str("CAND-001"),
         job_id |-> Str("JOB-001"),
         overall_fit |-> Str("strong_match"),
         screening_steps |-> Arr(<<
             ScreeningStep(1, "technical_skills", "Has all required skills"),
             ScreeningStep(2, "experience_level", "7 years experience"),
             ScreeningStep(3, "education", "CS degree")>>),
         skills_analysis |-> Obj([
             technical_skills |-> Arr(<<Obj([
                 skill_name |-> Str("TypeScript"),
                 proficiency_level |-> Str("expert"),
                 evidence_source |-> Str("Resume")])>>),
             soft_skills |-> Arr(<<Str("Leadership")>>),
             certifications |-> Arr(<<>>),
             required_skills_matched |-> Arr(<<Str("TypeScript")>>),
             missing_required_skills |-> Arr(<<>>)]),
         experience_analysis |-> Obj([
             total_years |-> Num(7),
             relevant_years |-> Num(7),
             experience_level |-> Str("senior"),
             career_progression |-> Str("ascending"),
             work_history |-> Arr(<<>>)]),
         education_analysis |-> Obj([
             highest_degree |-> Str("bachelor"),
             education_history |-> Arr(<<>>),
             meets_education_requirement |-> Bool(TRUE)]),
         fit_score |-> Num(90),
         strengths |-> Arr(<<Str("Strong technical skills"), Str("Great experience")>>),
         concerns |-> Arr(<<>>),
         recommended_action |-> Str("advance_to_interview"),
         interview_focus_areas |-> Arr(<<Str("System design"), Str("Leadership")>>)])

\* Values of the TypeScript type ResumeScreening: the type fixes each field's
\* primitive type and the enum members, not the bounds of numbers and strings
Screenings ==
    {Obj([base.f EXCEPT !.recommended_action = Str(action),
                        !.fit_score = score,
                        !.candidate_id = Str(id),
                        !.concerns = Arr(concerns)]) :
        base \in {validScreening, validData},
        action \in Range(recommendedActions),
        score \in {Num(90), Num(0), Num(100), Num(150), Half(59)},
        id \in {"CAND-001", ""},
        concerns \in {<<>>, <<Str("Limited cloud experience"), Str("Short tenure")>>}}

----------------------------------------------------------------------------
(* SpecParse: one schema.parse call on a drawn payload *)

\* Screening steps a payload may carry: the three of validData, and steps that
\* break ScreeningStepSchema
StepValues ==
    Range(validData.f.screening_steps.e) \cup
    {ScreeningStep(1, "technical_skills", "Short"),
     Obj([validStep.f EXCEPT !.step_number = Str("one")]),
     malformedResponse("CAND-001", "JOB-001").f.screening_steps.e[1],
     Obj(NoFields),
     Null}

\* ResumeScreeningSchema.parse of validData with its screening_steps replaced by
\* fewer steps than the minimum
ShortStepsCall(steps) ==
    [op |-> "parse", schema |-> "ResumeScreeningSchema",
     input |-> Obj([validData.f EXCEPT !.screening_steps = Arr(steps)]),
     edits |-> {}, steps |-> steps]

\* Values handed to CandidateFitEnum.parse: its members, other strings, and
\* values that are no string
EnumInputs ==
    {Str(m) : m \in Range(candidateFit)} \cup
    {Str("maybe"), Str(""), Str("STRONG_MATCH"), Str("strong_match "),
     Str("advance_to_interview"), Num(1), Bool(TRUE), Null, Undefined,
     Arr(<<Str("strong_match")>>), Obj([value |-> Str("strong_match")])}

\* schema.parse(value) on a schema that is no object
ValueCall(name, value) ==
    [op |-> "parse", schema |-> name, input |-> value, edits |-> {}, value |-> value]

\* Numbers around the bounds 0 and 100, whole and with a fraction
NumberInputs ==
    {Num(n) : n \in {-1, 0, 1, 50, 99, 100, 101, 150}}
    \cup {Half(n) : n \in {-1, 0, 99, 100}}

\* Durations around the bounds 15 and 480, whole and with a fraction
DurationInputs ==
    {Num(n) : n \in {0, 14, 15, 60, 480, 481, 500}}
    \cup {Half(n) : n \in {0, 14, 15, 60, 479, 480, 500}}

\* schema.parse of the schema's fixture with one top-level field replaced by
\* value, or removed when value is undefined
FieldCall(name, k, value) ==
    [op |-> "parse", schema |-> name,
     input |-> IF value = Undefined
               THEN Obj([x \in DOMAIN FixtureOf(name).f \ {k} |-> FixtureOf(name).f[x]])
               ELSE Obj([x \in DOMAIN FixtureOf(name).f \cup {k} |->
                            IF x = k THEN value ELSE FixtureOf(name).f[x]]),
     edits |-> {}, field |-> k, value |-> value]

InitParse ==
    /\ \/ \E name \in SchemaNames :
             LET edits == FixtureEdits[name]
             IN \E c \in EditChains(name) :
                   LET E == {edits[c[i]] : i \in DOMAIN c}
                   IN Independent(E) /\ call = ParseCall(name, E)
       \/ \E s1, s2 \in StepValues : call = ShortStepsCall(<<s1, s2>>)
       \/ \E s1 \in StepValues : call = ShortStepsCall(<<s1>>)
       \/ call = ShortStepsCall(<<>>)
       \/ \E value \in EnumInputs : call = ValueCall("CandidateFitEnum", value)
       \/ \E value \in NumberInputs :
             call = FieldCall("ResumeScreeningSchema", "fit_score", value)
       \/ \E value \in NumberInputs \cup {Undefined, Null} :
             call = FieldCall("ExtractedSkillSchema", "years_experience", value)
       \/ \E value \in DurationInputs :
             call = FieldCall("ScheduleInterviewArgsSchema", "duration_minutes", value)
    /\ pc = "ready"
    /\ result = NoResult
    /\ invoked = <<>>
    /\ parsed = <<>>
    /\ toolRegistry = initialToolRegistry
    /\ InitLLMAgent
    /\ lastFunctionCall = NoCall
    /\ first = NoCall

SchemaParse ==
    /\ pc = "ready"
    /\ call.op = "parse"
    /\ result' = Parse(SchemaOf(call.schema), call.input)
    /\ parsed' = <<[schema |-> call.schema, raw |-> call.input]>>
    /\ pc' = "done"
    /\ UNCHANGED <<call, invoked, toolRegistry, llmVars, lastFunctionCall, first>>

NextParse == SchemaParse

SpecParse == InitParse /\ [][NextParse]_vars

----------------------------------------------------------------------------
(* SpecDispatch: the dispatch of executeAgentFlow on a drawn function call, *)
(* with the shipped execute functions or with stand-ins                     *)

InitDispatch ==
    /\ \/ \E name \in DOMAIN initialToolRegistry :
             LET schema == initialToolRegistry[name].schema
                 edits == FixtureEdits[schema]
             IN \E c \in EditChains(schema) :
                   LET E == {edits[c[i]] : i \in DOMAIN c}
                   IN /\ Independent(E)
                      /\ call = DispatchCall(name, ApplyEdits(FixtureOf(schema), E), E)
       \/ \E name \in UnregisteredNames, args \in {validUpdateATSArgs, Obj(NoFields)} :
             call = DispatchCall(name, args, {})
    /\ toolRegistry \in Registries
    /\ pc = "ready"
    /\ result = NoResult
    /\ invoked = <<>>
    /\ parsed = <<>>
    /\ InitLLMAgent
    /\ lastFunctionCall = NoCall
    /\ first = NoCall

DispatchStep ==
    /\ pc = "ready"
    /\ call.op = "dispatch"
    /\ LET d == Dispatch(call.functionCall, toolRegistry)
       IN /\ result' = d.result
          /\ invoked' = d.invoked
          /\ parsed' = d.parsed
    /\ pc' = "done"
    /\ UNCHANGED <<call, toolRegistry, llmVars, lastFunctionCall, first>>

NextDispatch == DispatchStep

SpecDispatch == InitDispatch /\ [][NextDispatch]_vars

----------------------------------------------------------------------------
(* Spec: the module as shipped, any sequence of calls *)

Init ==
    /\ pc = "idle"
    /\ call = NoCall
    /\ result = NoResult
    /\ invoked = <<>>
    /\ parsed = <<>>
    /\ toolRegistry = initialToolRegistry
    /\ InitLLMAgent
    /\ lastFunctionCall = NoCall
    /\ first = NoCall

\* One executeAgentFlow call from its start to its return
AgentFlowCall(screening, forceInvalidCall) ==
    /\ call' = [op |-> "executeAgentFlow", screening |-> screening,
                forceInvalidCall |-> forceInvalidCall]
    /\ LET d == executeAgentFlow(screening, forceInvalidCall, toolRegistry)
       IN /\ result' = d.result
          /\ invoked' = d.invoked
          /\ parsed' = d.parsed
    /\ lastFunctionCall' = simulateLLMFunctionCall(screening, forceInvalidCall)
    /\ toolRegistry' = AfterDispatch(toolRegistry, lastFunctionCall')
    /\ pc' = "done"
    /\ UNCHANGED llmVars

ExecuteAgentFlow(screening, forceInvalidCall) ==
    /\ AgentFlowCall(screening, forceInvalidCall)
    /\ UNCHANGED first

GenerateToolDefinitionsForLLM ==
    /\ call' = [op |-> "generateToolDefinitionsForLLM"]
    /\ result' = [settled |-> "returned",
                  value |-> generateToolDefinitionsForLLM(toolRegistry)]
    /\ invoked' = <<>>
    /\ parsed' = <<>>
    /\ lastFunctionCall' = NoCall
    /\ pc' = "done"
    /\ UNCHANGED <<toolRegistry, llmVars, first>>

Next ==
    \/ \E screening \in Screenings, forceInvalidCall \in BOOLEAN :
          ExecuteAgentFlow(screening, forceInvalidCall)
    \/ GenerateToolDefinitionsForLLM

Spec == Init /\ [][Next]_vars

----------------------------------------------------------------------------
(* SpecSession: one process calling the exports of LLMAgent.ts and         *)
(* AgentFlow.ts one after the other.  first keeps the inputs and the       *)
(* decision of the first executeAgentFlow call of the session, and the     *)
(* candidate type that was set when it ran.                                *)

MaxLLMCalls == 2

SessionResumes == {r \in Resumes : r.candidateId \in {"CAND-001", "CAND-002"}}
SessionJobs == {j \in Jobs : j.jobId = "JOB-2024-001"}

\* The validated payloads of the session: what runResumeScreening returns as data
SessionScreenings ==
    {generateScreeningResult(t, r.candidateId, j.jobId) :
        t \in CandidateTypes, r \in SessionResumes, j \in SessionJobs}

\* runResumeScreening for each candidate type and each argument list of the session
ScreeningRuns ==
    [t \in CandidateTypes, r \in SessionResumes, j \in SessionJobs, f \in BOOLEAN |->
        runResumeScreening(t, r, j, f)]

InitSession == Init

SetCandidateType(type) ==
    /\ currentCandidateType' = type
    /\ call' = [op |-> "setCandidateType", type |-> type]
    /\ result' = [settled |-> "returned", value |-> Undefined]
    /\ pc' = "done"
    /\ lastFunctionCall' = NoCall
    /\ UNCHANGED <<invoked, parsed, toolRegistry, simulationCallCount, first>>

ResetSimulationState ==
    /\ simulationCallCount' = 0
    /\ currentCandidateType' = "strong_match"
    /\ call' = [op |-> "resetSimulationState"]
    /\ result' = [settled |-> "returned", value |-> Undefined]
    /\ pc' = "done"
    /\ lastFunctionCall' = NoCall
    /\ UNCHANGED <<invoked, parsed, toolRegistry, first>>

RunResumeScreening(resume, job, forceFailure) ==
    /\ simulationCallCount < MaxLLMCalls
    /\ simulationCallCount' = simulationCallCount + 1
    /\ call' = [op |-> "runResumeScreening", resume |-> resume, job |-> job,
                forceFailure |-> forceFailure]
    /\ LET d == ScreeningRuns[currentCandidateType, resume, job, forceFailure]
       IN /\ result' = d.result
          /\ invoked' = d.invoked
          /\ parsed' = d.parsed
    /\ pc' = "done"
    /\ lastFunctionCall' = NoCall
    /\ UNCHANGED <<toolRegistry, currentCandidateType, first>>

SessionExecuteAgentFlow(screening, forceInvalidCall) ==
    /\ AgentFlowCall(screening, forceInvalidCall)
    /\ first' = IF first = NoCall
                THEN [op |-> "executeAgentFlow", screening |-> screening,
                      forceInvalidCall |-> forceInvalidCall,
                      functionCall |-> lastFunctionCall',
                      candidateType |-> currentCandidateType]
                ELSE first

NextSession ==
    \/ \E type \in CandidateTypes : SetCandidateType(type)
    \/ ResetSimulationState
    \/ \E resume \in SessionResumes, job \in SessionJobs, forceFailure \in BOOLEAN :
          RunResumeScreening(resume, job, forceFailure)
    \/ \E screening \in SessionScreenings, forceInvalidCall \in BOOLEAN :
          SessionExecuteAgentFlow(screening, forceInvalidCall)

SpecSession == InitSession /\ [][NextSession]_vars

----------------------------------------------------------------------------
(* SpecRespond: the response handling of runResumeScreening applied to a   *)
(* drawn LLM response.  A response is the JSON text of a payload, whole or *)
(* damaged the way LLM output is: cut off, with prose in front, with a     *)
(* surplus closing brace, with a comma before the closing brace.           *)

\* Payloads an LLM may answer with: the simulated screenings, the malformed
\* response, and JSON values that are no object
ResponseObjects ==
    {generateScreeningResult(t, r.candidateId, j.jobId) :
        t \in CandidateTypes, r \in Resumes, j \in Jobs}
    \cup {malformedResponse(r.candidateId, j.jobId) : r \in Resumes, j \in Jobs}

ResponseValues == {Null, Num(42), Str("strong_match"), Arr(<<>>), Obj(NoFields)}

Cuts(text) == {0, 1, Len(text) \div 2, Len(text) - 1}

Damaged(text) ==
    {[damage |-> "truncated", text |-> SubSeq(text, 1, n)] : n \in Cuts(text)}
    \cup {[damage |-> "preamble",
           text |-> <<Word("Here"), Word("is"), Word("the"), Word("analysis:")>> \o text],
          [damage |-> "surplus brace", text |-> text \o <<Punct("}")>>],
          [damage |-> "trailing comma",
           text |-> SubSeq(text, 1, Len(text) - 1) \o <<Punct(","), Punct("}")>>]}

ResponseCall(payload, damage, llmResponse) ==
    [op |-> "validateResponse", payload |-> payload, damage |-> damage,
     llmResponse |-> llmResponse]

ResponseCalls ==
    {ResponseCall(v, "none", LLMResponse(Stringify(v), tokenCountSuccess)) :
        v \in ResponseObjects \cup ResponseValues}
    \cup UNION {{ResponseCall(v, d.damage, LLMResponse(d.text, tokenCountSuccess)) :
                    d \in Damaged(Stringify(v))} : v \in ResponseObjects}
    \cup {ResponseCall(Undefined, "api failure",
                       [LLMResponse(<<>>, 0) EXCEPT !.success = FALSE])}

InitRespond ==
    /\ call \in ResponseCalls
    /\ pc = "ready"
    /\ result = NoResult
    /\ invoked = <<>>
    /\ parsed = <<>>
    /\ toolRegistry = initialToolRegistry
    /\ InitLLMAgent
    /\ lastFunctionCall = NoCall
    /\ first = NoCall

Respond ==
    /\ pc = "ready"
    /\ call.op = "validateResponse"
    /\ LET d == ValidateResponse(call.llmResponse)
       IN /\ result' = d.result
          /\ parsed' = d.parsed
    /\ pc' = "done"
    /\ UNCHANGED <<call, invoked, toolRegistry, llmVars, lastFunctionCall, first>>

NextRespond == Respond

SpecRespond == InitRespond /\ [][NextRespond]_vars

----------------------------------------------------------------------------
(* SpecConcurrent: several executeAgentFlow calls in flight at once.  The   *)
(* function is async and its body holds no await: a call runs from its     *)
(* start to its return in one turn of the event loop and leaves a settled  *)
(* promise, which its caller awaits later.  Calls start in any order and   *)
(* are awaited in any order.  Here call, pc and result are indexed by the  *)
(* call, and invoked and parsed say which call made each entry.            *)

MaxConcurrent == 3

ConcurrentInputs ==
    {[op |-> "executeAgentFlow", screening |-> validScreening,
      forceInvalidCall |-> FALSE],
     [op |-> "executeAgentFlow",
      screening |-> generateScreeningResult("potential_fit", "CAND-002", "JOB-2024-001"),
      forceInvalidCall |-> FALSE],
     [op |-> "executeAgentFlow", screening |-> validScreening,
      forceInvalidCall |-> TRUE]}

By(i, entries) == [k \in DOMAIN entries |-> [by |-> i, entry |-> entries[k]]]

Own(i, entries) == SelectSeq(entries, LAMBDA e : e.by = i)

InitConcurrent ==
    /\ \E n \in 2..MaxConcurrent :
          /\ call \in [1..n -> ConcurrentInputs]
          /\ pc = [i \in 1..n |-> "unstarted"]
          /\ result = [i \in 1..n |-> NoResult]
    /\ invoked = <<>>
    /\ parsed = <<>>
    /\ toolRegistry = initialToolRegistry
    /\ InitLLMAgent
    /\ lastFunctionCall = NoCall
    /\ first = NoCall

\* Call i runs: the whole body of executeAgentFlow, up to the settled promise
StartCall(i) ==
    /\ pc[i] = "unstarted"
    /\ LET d == executeAgentFlow(call[i].screening, call[i].forceInvalidCall,
                                 toolRegistry)
       IN /\ result' = [result EXCEPT ![i] = d.result]
          /\ invoked' = invoked \o By(i, d.invoked)
          /\ parsed' = parsed \o By(i, d.parsed)
    /\ lastFunctionCall' =
          simulateLLMFunctionCall(call[i].screening, call[i].forceInvalidCall)
    /\ toolRegistry' = AfterDispatch(toolRegistry, lastFunctionCall')
    /\ pc' = [pc EXCEPT ![i] = "settled"]
    /\ UNCHANGED <<call, llmVars, first>>

\* The caller of call i resumes from its await with the promise's value
AwaitResult(i) ==
    /\ pc[i] = "settled"
    /\ pc' = [pc EXCEPT ![i] = "awaited"]
    /\ UNCHANGED <<call, result, invoked, parsed, toolRegistry, llmVars,
                   lastFunctionCall, first>>

NextConcurrent ==
    \E i \in DOMAIN pc : StartCall(i) \/ AwaitResult(i)

SpecConcurrent == InitConcurrent /\ [][NextConcurrent]_vars

----------------------------------------------------------------------------
(* SpecDecide: the decision rule applied to a drawn screening *)

\* Values a recommended_action may hold at run time that the enum does not list
OutOfDomainActions ==
    {Str("escalate"), Str(""), Str("ADVANCE_TO_INTERVIEW"), Null, Num(1), Undefined}

WithAction(screening, action) ==
    IF action = Undefined
    THEN Obj([k \in DOMAIN screening.f \ {"recommended_action"} |-> screening.f[k]])
    ELSE Obj([screening.f EXCEPT !.recommended_action = action])

DecisionInputs ==
    Screenings \cup
    {WithAction(base, action) : base \in {validScreening, validData},
                               action \in OutOfDomainActions}

InitDecide ==
    /\ \E screening \in DecisionInputs, shouldFail \in BOOLEAN :
          call = [op |-> "simulateLLMFunctionCall", screening |-> screening,
                  shouldFail |-> shouldFail]
    /\ pc = "ready"
    /\ result = NoResult
    /\ invoked = <<>>
    /\ parsed = <<>>
    /\ toolRegistry = initialToolRegistry
    /\ InitLLMAgent
    /\ lastFunctionCall = NoCall
    /\ first = NoCall

SimulateLLMFunctionCall ==
    /\ pc = "ready"
    /\ call.op = "simulateLLMFunctionCall"
    /\ result' = simulateLLMFunctionCall(call.screening, call.shouldFail)
    /\ lastFunctionCall' = result'
    /\ pc' = "done"
    /\ UNCHANGED <<call, invoked, parsed, toolRegistry, llmVars, first>>

NextDecide == SimulateLLMFunctionCall

SpecDecide == InitDecide /\ [][NextDecide]_vars

----------------------------------------------------------------------------
(* Properties of the dispatch (SpecDispatch) *)

Name == call.functionCall.function_name
RawArguments == call.functionCall.arguments

DispatchDone == pc = "done" /\ call.op = "dispatch"

\* The raw arguments of a call to a registered tool, held against its schema
RawIssues == Issues(SchemaOf(toolRegistry[Name].schema), RawArguments, <<>>)

Breaking(E) == {e \in E : e.breaks >= 1}

\* The four outcomes of AgentFlowResult
Dispatched(r) == "functionCalled" \in DOMAIN r /\ "error" \notin DOMAIN r
Failed(r, type) ==
    /\ r.success = FALSE
    /\ "error" \in DOMAIN r
    /\ "functionCalled" \notin DOMAIN r
    /\ r.error.type = type
Outcomes(r) ==
    (IF Dispatched(r) THEN {"dispatched"} ELSE {})
    \cup {t \in {"unknown_function", "validation_error", "execution_error"} :
             "error" \in DOMAIN r /\ r.error.type = t}

\* v carries, at every level, only keys its schema declares
RECURSIVE OnlyDeclared(_, _)
OnlyDeclared(schema, v) ==
    CASE schema.kind = "optional" -> OnlyDeclared(schema.inner, v)
      [] schema.kind = "object" ->
           /\ DOMAIN v.f \subseteq Range(schema.keys)
           /\ \A k \in DOMAIN v.f : OnlyDeclared(schema.shape[k], v.f[k])
      [] schema.kind = "array" ->
           \A i \in DOMAIN v.e : OnlyDeclared(schema.element, v.e[i])
      [] OTHER -> TRUE

\* C1: for a registered tool and raw arguments that violate its schema in at
\* least one place, the call returns success=false with error.type
\* 'validation_error' whose details carry the violations (one at the path of
\* each broken place), and the tool's execute function is not invoked.
C1_InvalidArgumentsNeverExecuted ==
    (DispatchDone /\ Name \in DOMAIN toolRegistry /\ RawIssues # <<>>) =>
        /\ result.settled = "fulfilled"
        /\ Failed(result.value, "validation_error")
        /\ result.value.error.details = RawIssues
        /\ \A e \in Breaking(call.edits) :
              \E i \in DOMAIN result.value.error.details :
                  result.value.error.details[i].path = e.path
        /\ invoked = <<>>

\* C1 happens: arguments broken in two places reach a registered tool.
C1_Witness ==
    /\ DispatchDone
    /\ Name \in DOMAIN toolRegistry
    /\ Cardinality(Breaking(call.edits)) = 2
    /\ Failed(result.value, "validation_error")
    /\ Len(result.value.error.details) >= 2
    /\ invoked = <<>>

\* C2: whenever an execute function is invoked, what it receives is the output
\* of validating the raw arguments of this call against the schema of the same
\* tool: it satisfies that schema, and no field the schema does not declare is
\* left in it.
C2_ExecutorReceivesValidatedArguments ==
    DispatchDone =>
        \A i \in DOMAIN invoked :
            LET tool == toolRegistry[invoked[i].tool]
                schema == SchemaOf(tool.schema)
            IN /\ invoked[i].tool = Name
               /\ invoked[i].execute = tool.execute
               /\ parsed = <<[schema |-> tool.schema, raw |-> RawArguments]>>
               /\ Issues(schema, RawArguments, <<>>) = <<>>
               /\ invoked[i].args = Output(schema, RawArguments)
               /\ Issues(schema, invoked[i].args, <<>>) = <<>>
               /\ OnlyDeclared(schema, invoked[i].args)

\* C2 happens: raw arguments with an undeclared field pass validation and the
\* execute function is invoked without that field.
C2_Witness ==
    /\ DispatchDone
    /\ Len(invoked) = 1
    /\ "extra_field" \in DOMAIN RawArguments.f
    /\ "extra_field" \notin DOMAIN invoked[1].args.f
    /\ invoked[1].args # RawArguments

\* C3: for every function name the registry does not declare, the call returns
\* success=false with error.type 'unknown_function' and a message naming the
\* function; no execute function is invoked and no validation is attempted.
C3_UnregisteredNameIsUnknownFunction ==
    (DispatchDone /\ Name \notin DOMAIN toolRegistry) =>
        /\ result.settled = "fulfilled"
        /\ Failed(result.value, "unknown_function")
        /\ result.value.error.message = [text |-> "Unknown function: " \o Name]
        /\ invoked = <<>>
        /\ parsed = <<>>

\* C4: if the execute function throws after its arguments passed validation,
\* the call returns success=false with error.type 'execution_error' and does
\* not reject; the failure is reported under no other error type.
C4_ExecutorFailureIsExecutionError ==
    (/\ DispatchDone
     /\ Len(invoked) = 1
     /\ "throws" \in DOMAIN Execute(invoked[1].execute, invoked[1].args)) =>
        /\ result.settled = "fulfilled"
        /\ Failed(result.value, "execution_error")

ExecutorReturned ==
    /\ Len(invoked) = 1
    /\ "returns" \in DOMAIN Execute(invoked[1].execute, invoked[1].args)

\* C30: every result carries exactly one of functionCalled and error.
\* functionCalled is present if and only if an executor was invoked and
\* returned, error if and only if no executor returned, and success=true
\* implies that functionCalled is present and error absent.
C30_FunctionCalledXorError ==
    DispatchDone =>
        /\ result.settled = "fulfilled"
        /\ "functionCalled" \in DOMAIN result.value <=> ExecutorReturned
        /\ "error" \in DOMAIN result.value <=> ~ExecutorReturned
        /\ result.value.success = TRUE =>
              /\ "functionCalled" \in DOMAIN result.value
              /\ "error" \notin DOMAIN result.value

\* C30 happens: an executor was invoked with valid arguments and threw; the
\* result carries the error and no functionCalled.
C30_Witness ==
    /\ DispatchDone
    /\ Len(invoked) = 1
    /\ call.edits = {}
    /\ Execute(invoked[1].execute, invoked[1].args) = Throws(Error("ATS unavailable"))
    /\ DOMAIN result.value = {"success", "error"}
    /\ result.value.error.type = "execution_error"

----------------------------------------------------------------------------
(* Properties of schema.parse (SpecParse) *)

ParseDone == pc = "done" /\ call.op = "parse"

IssuesAt(issues, path) == {i \in DOMAIN issues : issues[i].path = path}

\* The schema of the field at a path, an optional wrapper of that field kept
RECURSIVE SchemaAt(_, _)
SchemaAt(schema, path) ==
    IF path = <<>> THEN schema
    ELSE LET inner == IF schema.kind = "optional" THEN schema.inner ELSE schema
             step == path[1]
         IN IF "idx" \in DOMAIN step
            THEN SchemaAt(inner.element, Tail(path))
            ELSE IF step.key \in Range(inner.keys)
            THEN SchemaAt(inner.shape[step.key], Tail(path))
            ELSE [kind |-> "undeclared"]

Undeclared(e) == SchemaAt(SchemaOf(call.schema), e.path).kind = "undeclared"

\* C6: a payload with n >= 2 independently broken constraints (none on an
\* ancestor or descendant path of another) gets exactly n violations from one
\* validation pass, each at the path of its own constraint; validation does
\* not stop at the first.
C6_EveryViolationReported ==
    (ParseDone /\ Cardinality(Breaking(call.edits)) >= 2) =>
        /\ ~result.ok
        /\ Len(result.issues) = BrokenCount(call.edits)
        /\ Len(result.issues) >= 2
        /\ \A e \in Breaking(call.edits) :
              Cardinality(IssuesAt(result.issues, e.path)) = e.breaks
        /\ \A i \in DOMAIN result.issues :
              \E e \in Breaking(call.edits) : result.issues[i].path = e.path

\* C6 happens: updateATS arguments with an empty candidate_id and a fit_score
\* above the maximum yield exactly the two violations.
C6_Witness ==
    /\ ParseDone
    /\ call.schema = "UpdateATSArgsSchema"
    /\ call.edits = {Edit("set", <<Key("candidate_id")>>, Str(""), 1),
                     Edit("set", <<Key("fit_score")>>, Num(150), 1)}
    /\ call.input.f.candidate_id = Str("")
    /\ call.input.f.fit_score = Num(150)
    /\ result = [ok |-> FALSE,
                 issues |-> <<Issue("too_small", <<Key("candidate_id")>>),
                              Issue("too_big", <<Key("fit_score")>>)>>]

\* C7: a payload that breaks exactly one constraint, at any depth and also
\* inside an array element, gets exactly one violation, at the full path of
\* that constraint; none is reported for an enclosing object or array.
C7_SingleViolationAtItsPath ==
    (ParseDone /\ BrokenCount(call.edits) = 1) =>
        \E e \in Breaking(call.edits) :
            /\ ~result.ok
            /\ Len(result.issues) = 1
            /\ result.issues[1].path = e.path

\* C7 happens: the evidence of the third screening step of a whole screening
\* document is too short, and the only violation is at
\* screening_steps[2].evidence.
C7_Witness ==
    /\ ParseDone
    /\ call.schema = "ResumeScreeningSchema"
    /\ call.edits = {Edit("set", <<Key("screening_steps"), Idx(2), Key("evidence")>>,
                          Str("Short"), 1)}
    /\ call.input.f.screening_steps.e[3].f.evidence = Str("Short")
    /\ result = [ok |-> FALSE,
                 issues |-> <<Issue("too_small",
                                    <<Key("screening_steps"), Idx(2), Key("evidence")>>)>>]

GapIdentifiedNull(e) ==
    /\ e.op = "set"
    /\ e.val = Null
    /\ e.path[Len(e.path)] = Key("gap_identified")

\* C8: ScreeningStepSchema and ResumeScreeningSchema accept a screening step
\* whose gap_identified is present with the value null, all else valid:
\* validation succeeds and returns the data.
C8_NullGapIdentifiedAccepted ==
    (/\ ParseDone
     /\ call.schema \in {"ScreeningStepSchema", "ResumeScreeningSchema"}
     /\ call.edits # {}
     /\ \A e \in call.edits : GapIdentifiedNull(e)) =>
        /\ result.ok
        /\ result.data = call.input

C10_UndeclaredFieldsStripped ==
    (/\ ParseDone
     /\ Breaking(call.edits) = {}
     /\ \E e \in call.edits : Undeclared(e)) =>
        /\ result.ok
        /\ OnlyDeclared(SchemaOf(call.schema), result.data)
        /\ result.data =
              ApplyEdits(FixtureOf(call.schema), {e \in call.edits : ~Undeclared(e)})
        /\ result.data # call.input

\* C10 happens: a whole screening document with an undeclared field at the top
\* level and one inside a nested object validates.
C10_Witness ==
    /\ ParseDone
    /\ call.schema = "ResumeScreeningSchema"
    /\ \E d, e \in call.edits :
          Undeclared(d) /\ Undeclared(e) /\ Len(d.path) = 1 /\ Len(e.path) > 1
    /\ result = [ok |-> TRUE, data |-> validData]

\* C11: validation is idempotent on its own output.  For every payload a schema
\* accepts, validating the returned value against the same schema succeeds
\* again and returns an equal value.
C11_ValidationIdempotent ==
    (ParseDone /\ result.ok) =>
        Parse(SchemaOf(call.schema), result.data) = [ok |-> TRUE, data |-> result.data]

\* C11 happens: a payload is accepted with an undeclared field stripped and an
\* optional field absent, and its output validates to itself.
C11_Witness ==
    /\ ParseDone
    /\ call.schema = "UpdateATSArgsSchema"
    /\ call.edits = {Edit("del", <<Key("fit_score")>>, Undefined, 0),
                     Edit("set", <<Key("extra_field")>>, Str("extra"), 0)}
    /\ result.ok
    /\ result.data # call.input
    /\ Parse(UpdateATSArgsSchema, result.data) = result

Position(keys, k) == CHOOSE i \in DOMAIN keys : keys[i] = k

\* Path p comes before path q in the pre-order walk of the schema: a value
\* before what it contains, object fields in the order of their declaration,
\* array elements in the order of their index
RECURSIVE Precedes(_, _, _)
Precedes(schema, p, q) ==
    LET inner == IF schema.kind = "optional" THEN schema.inner ELSE schema
    IN IF p = <<>> THEN q # <<>>
       ELSE IF q = <<>> THEN FALSE
       ELSE IF p[1] = q[1]
       THEN Precedes(SchemaAt(inner, <<p[1]>>), Tail(p), Tail(q))
       ELSE IF "idx" \in DOMAIN p[1] THEN p[1].idx < q[1].idx
       ELSE Position(inner.keys, p[1].key) < Position(inner.keys, q[1].key)

\* C25: the violations are listed in the order of a pre-order walk of the
\* schema (object fields in declaration order, array elements in index order),
\* and validating the same input again yields the identical list.
C25_ViolationsInSchemaOrder ==
    (ParseDone /\ ~result.ok) =>
        /\ \A i, j \in DOMAIN result.issues :
              i < j => ~Precedes(SchemaOf(call.schema), result.issues[j].path,
                                 result.issues[i].path)
        /\ Parse(SchemaOf(call.schema), call.input) = result

\* C25 happens: the forced-invalid updateATS arguments (empty candidate_id,
\* status 'maybe_hired', fit_score 150) yield their three violations in the
\* order candidate_id, status, fit_score.
C25_Witness ==
    /\ ParseDone
    /\ call.schema = "UpdateATSArgsSchema"
    /\ call.edits = {Edit("set", <<Key("candidate_id")>>, Str(""), 1),
                     Edit("set", <<Key("status")>>, Str("maybe_hired"), 1),
                     Edit("set", <<Key("fit_score")>>, Num(150), 1)}
    /\ call.input.f.candidate_id = Str("")
    /\ call.input.f.status = Str("maybe_hired")
    /\ call.input.f.fit_score = Num(150)
    /\ result.issues = <<Issue("too_small", <<Key("candidate_id")>>),
                         Issue("invalid_enum_value", <<Key("status")>>),
                         Issue("too_big", <<Key("fit_score")>>)>>

EnumParsed == ParseDone /\ call.schema = "CandidateFitEnum"

\* C22: an enum accepts exactly the members of its set.  CandidateFitEnum
\* accepts 'strong_match', 'qualified', 'potential_fit' and 'not_qualified',
\* and rejects every other value, the empty string and non-strings included,
\* with exactly one violation.
C22_EnumAcceptsExactlyItsMembers ==
    EnumParsed =>
        IF call.input \in {Str("strong_match"), Str("qualified"),
                           Str("potential_fit"), Str("not_qualified")}
        THEN result = [ok |-> TRUE, data |-> call.input]
        ELSE /\ ~result.ok
             /\ Len(result.issues) = 1
             /\ result.issues[1].path = <<>>

\* C22 happens: the empty string is rejected with one violation.
C22_Witness ==
    /\ EnumParsed
    /\ call.input = Str("")
    /\ result = [ok |-> FALSE, issues |-> <<Issue("invalid_enum_value", <<>>)>>]

FieldParsed(name, k) ==
    /\ ParseDone
    /\ "field" \in DOMAIN call
    /\ call.schema = name
    /\ call.field = k

\* lo <= v for a number v of the model (n, or n + 1/2), and v <= hi
AtLeast(v, lo) == v.t = "number" /\ v.n >= lo
AtMost(v, hi) == v.t = "number" /\ (IF v.half THEN v.n < hi ELSE v.n <= hi)

\* C23: numeric bounds are inclusive range checks.  fit_score is accepted if
\* and only if 0 <= fit_score <= 100 (0 and 100 accepted; -1, 101 and 150
\* rejected), and the optional years_experience if and only if it is absent
\* or >= 0.
C23_NumericBoundsInclusive ==
    /\ FieldParsed("ResumeScreeningSchema", "fit_score") =>
          (result.ok <=> (AtLeast(call.value, 0) /\ AtMost(call.value, 100)))
    /\ FieldParsed("ExtractedSkillSchema", "years_experience") =>
          (result.ok <=> (call.value = Undefined \/ AtLeast(call.value, 0)))

\* C23 happens: a fit_score of exactly 100 is accepted.
C23_Witness ==
    /\ FieldParsed("ResumeScreeningSchema", "fit_score")
    /\ call.value = Num(100)
    /\ call.input.f.fit_score = Num(100)
    /\ result.ok
    /\ result.data.f.fit_score = Num(100)

\* How many of a number schema's bounds (integer, minimum, maximum) v misses
UnmetBounds(schema, v) ==
    LET inner == IF schema.kind = "optional" THEN schema.inner ELSE schema
    IN Cardinality({i \in DOMAIN inner.checks :
          CASE inner.checks[i].check = "int" -> v.half
            [] inner.checks[i].check = "min" -> ~AtLeast(v, inner.checks[i].value)
            [] inner.checks[i].check = "max" -> ~AtMost(v, inner.checks[i].value)
            [] OTHER -> FALSE})

\* C26: for a value of the correct primitive type every unmet bound is its own
\* violation, with no short-circuit between the bounds: a number field gets as
\* many violations at its path as bounds it misses, and a duration_minutes
\* that is both non-integer and above 480 gets exactly two.
C26_EveryUnmetBoundReported ==
    (ParseDone /\ "field" \in DOMAIN call /\ call.value.t = "number") =>
        LET schema == SchemaAt(SchemaOf(call.schema), <<Key(call.field)>>)
            issues == IF result.ok THEN <<>> ELSE result.issues
        IN /\ Cardinality(IssuesAt(issues, <<Key(call.field)>>))
                = UnmetBounds(schema, call.value)
           /\ Len(issues) = UnmetBounds(schema, call.value)
           /\ (call.field = "duration_minutes" /\ call.value.half
                  /\ ~AtMost(call.value, 480))
                 => Len(issues) = 2

\* C26 happens: duration_minutes 500.5 is reported as not an integer and as
\* too big.
C26_Witness ==
    /\ FieldParsed("ScheduleInterviewArgsSchema", "duration_minutes")
    /\ call.value = Half(500)
    /\ result.issues = <<Issue("invalid_type", <<Key("duration_minutes")>>),
                         Issue("too_big", <<Key("duration_minutes")>>)>>

TooFewSteps == ParseDone /\ "steps" \in DOMAIN call

StepPath(i) == <<Key("screening_steps"), Idx(i - 1)>>

RECURSIVE StepIssues(_, _)
StepIssues(steps, i) ==
    IF i > Len(steps) THEN <<>>
    ELSE Issues(ScreeningStepSchema, steps[i], StepPath(i)) \o StepIssues(steps, i + 1)

\* C24: an array shorter than its minimum length gets one violation for the
\* array as a whole, not one per missing element, and every present element is
\* still validated on its own, its violations reported at its index-qualified
\* path: the violations are the array's one followed by those each element
\* gets from ScreeningStepSchema.
C24_ShortArrayElementsStillValidated ==
    TooFewSteps =>
        /\ ~result.ok
        /\ Cardinality(IssuesAt(result.issues, <<Key("screening_steps")>>)) = 1
        /\ result.issues =
              <<Issue("too_small", <<Key("screening_steps")>>)>>
              \o StepIssues(call.steps, 1)

\* C24 happens: screening_steps of length 1 whose only element has four
\* invalid fields yields the array's violation and the element's four.
C24_Witness ==
    /\ TooFewSteps
    /\ call.steps = <<malformedResponse("CAND-001", "JOB-001").f.screening_steps.e[1]>>
    /\ Len(result.issues) = 5
    /\ result.issues[1] = Issue("too_small", <<Key("screening_steps")>>)
    /\ \A i \in 2..5 : SubSeq(result.issues[i].path, 1, 2) = StepPath(1)
    /\ {result.issues[i].path[3].key : i \in 2..5} =
          {"step_number", "evaluation_category", "requirement_met", "evidence"}

ShortSteps == ParseDone /\ "steps" \in DOMAIN call /\ Len(call.steps) = 2

\* C17: screening_steps needs at least 3 items; an array of length 2 is
\* rejected with exactly 1 violation, at the array's own path, whether or not
\* the two present elements are themselves valid.
C17_ShortArrayHasOneViolation ==
    ShortSteps =>
        /\ ~result.ok
        /\ Len(result.issues) = 1
        /\ result.issues[1].path = <<Key("screening_steps")>>

----------------------------------------------------------------------------
(* Properties of executeAgentFlow (Spec) *)

AgentFlowDone == pc = "done" /\ call.op = "executeAgentFlow"

Advancing ==
    /\ AgentFlowDone
    /\ call.screening.f.recommended_action = Str("advance_to_interview")
    /\ call.forceInvalidCall = FALSE

\* The fields the decision rule copies into the arguments meet the bounds both
\* ResumeScreeningSchema and the tools' schemas put on them
CopiedFieldsInBounds(screening) ==
    \A k \in {"candidate_id", "job_id", "fit_score"} :
        Issues(ResumeScreeningSchema.shape[k], screening.f[k], <<Key(k)>>) = <<>>

DispatchedOnce(name) ==
    /\ result.settled = "fulfilled"
    /\ result.value.success = TRUE
    /\ "error" \notin DOMAIN result.value
    /\ result.value.functionCalled = name
    /\ Len(invoked) = 1
    /\ invoked[1].tool = name

C27_ValidScreeningNeverValidationError ==
    (/\ AgentFlowDone
     /\ call.forceInvalidCall = FALSE
     /\ Parse(ResumeScreeningSchema, call.screening).ok) =>
        /\ result.settled = "fulfilled"
        /\ "error" \in DOMAIN result.value
              => result.value.error.type # "validation_error"
        /\ Len(parsed) = 1
        /\ Parse(SchemaOf(parsed[1].schema), parsed[1].raw).ok

\* C27 happens: a valid screening with a fractional fit_score and no concerns,
\* recommended for a phone screen, is dispatched to flagForReview.
C27_Witness ==
    /\ AgentFlowDone
    /\ call.forceInvalidCall = FALSE
    /\ call.screening.f.fit_score = Half(59)
    /\ call.screening.f.concerns = Arr(<<>>)
    /\ call.screening.f.recommended_action = Str("phone_screen_first")
    /\ Parse(ResumeScreeningSchema, call.screening).ok
    /\ DispatchedOnce("flagForReview")

\* C28: executeAgentFlow dispatches updateATS with status 'rejected' only for
\* screenings whose recommended_action is 'reject'; a screening recommended
\* for 'hold_for_review' is never dispatched as a rejection.
C28_RejectedOnlyForReject ==
    (AgentFlowDone /\ call.forceInvalidCall = FALSE) =>
        \A i \in DOMAIN invoked :
            (invoked[i].tool = "updateATS"
               /\ invoked[i].args.f.status = Str("rejected"))
              => call.screening.f.recommended_action = Str("reject")

\* C29: with the shipped registry and decision rule the outcomes
\* 'unknown_function' and 'execution_error' are unreachable from
\* executeAgentFlow: the selected name is always registered and no executor
\* throws or returns false, so success=true holds exactly when the selected
\* arguments pass the tool's schema.
C29_OnlyDispatchedOrValidationError ==
    AgentFlowDone =>
        /\ result.settled = "fulfilled"
        /\ lastFunctionCall.function_name \in DOMAIN initialToolRegistry
        /\ Outcomes(result.value) \in {{"dispatched"}, {"validation_error"}}
        /\ result.value.success = TRUE
              <=> Parse(SchemaOf(initialToolRegistry[lastFunctionCall.function_name].schema),
                        lastFunctionCall.arguments).ok
        /\ result.value.success = TRUE <=> Len(invoked) = 1

\* C29 happens: a screening recommended for rejection is dispatched to
\* updateATS, which returns true.
C29_Witness ==
    /\ AgentFlowDone
    /\ call.forceInvalidCall = FALSE
    /\ call.screening.f.recommended_action = Str("reject")
    /\ call.screening.f.candidate_id = Str("CAND-001")
    /\ call.screening.f.fit_score = Num(0)
    /\ result.value = [success |-> TRUE, functionCalled |-> "updateATS"]
    /\ invoked[1].args.f.status = Str("rejected")

\* C18: the tool registry is read-only after module initialisation.  After any
\* sequence of executeAgentFlow and generateToolDefinitionsForLLM calls,
\* successful or failing, the registered names and each name's schema and
\* executor are the initial ones.
C18_RegistryReadOnly ==
    /\ DOMAIN toolRegistry = DOMAIN initialToolRegistry
    /\ \A n \in DOMAIN initialToolRegistry :
          /\ toolRegistry[n].schema = initialToolRegistry[n].schema
          /\ toolRegistry[n].execute = initialToolRegistry[n].execute

\* C18 happens: a failing executeAgentFlow call has returned, and all four tools
\* are still registered as shipped.
C18_Witness ==
    /\ AgentFlowDone
    /\ call.forceInvalidCall
    /\ result.value.success = FALSE
    /\ result.value.error.type = "validation_error"
    /\ toolRegistry = initialToolRegistry
    /\ Len(generateToolDefinitionsForLLM(toolRegistry)) = 4

----------------------------------------------------------------------------
(* Properties of the decision rule (SpecDecide) *)

DecideDone == pc = "done" /\ call.op = "simulateLLMFunctionCall"

IsFunctionCall(r) ==
    /\ DOMAIN r = {"function_name", "arguments"}
    /\ r.function_name \in DOMAIN toolRegistry
    /\ r.arguments.t = "object"

\* C13: the decision rule with shouldFail=false is total.  For each of the
\* four recommended_action values it returns a registered function name with
\* an argument object, and for any other value it takes the final else branch
\* (updateATS with status 'rejected') instead of throwing or returning nothing.
C13_DecisionRuleTotal ==
    (DecideDone /\ call.shouldFail = FALSE) =>
        /\ IsFunctionCall(result)
        /\ Field(call.screening, "recommended_action") \notin
              {Str(a) : a \in Range(recommendedActions)} =>
              /\ result.function_name = "updateATS"
              /\ result.arguments.f.status = Str("rejected")

\* C13 happens: a recommended_action outside the enum gets the default branch.
C13_Witness ==
    /\ DecideDone
    /\ call.shouldFail = FALSE
    /\ call.screening = WithAction(validScreening, Str("escalate"))
    /\ result.function_name = "updateATS"
    /\ result.arguments.f.status = Str("rejected")

----------------------------------------------------------------------------
(* Properties of a session (SpecSession) *)

SameDecisionInputs ==
    /\ AgentFlowDone
    /\ first # NoCall
    /\ call.screening = first.screening
    /\ call.forceInvalidCall = first.forceInvalidCall

----------------------------------------------------------------------------
(* Properties of the response handling (SpecRespond) *)

RespondDone ==
    pc = "done" /\ call.op = "validateResponse" /\ call.llmResponse.success

Unparseable == RespondDone /\ call.damage # "none"

SchemaViolating ==
    /\ RespondDone
    /\ call.damage = "none"
    /\ ~Parse(ResumeScreeningSchema, call.payload).ok

\* C15: when the raw response text is not parseable as JSON, runResumeScreening
\* returns success=false with error.type 'parse_error' and no details, starts
\* no schema validation, and returns the raw text in rawResponse; and a
\* parseable text whose value violates the schema is reported as
\* 'validation_error', never as 'parse_error'.
C15_DecodeErrorIsParseError ==
    /\ Unparseable =>
          /\ result.settled = "fulfilled"
          /\ result.value.success = FALSE
          /\ result.value.error.type = "parse_error"
          /\ "details" \notin DOMAIN result.value.error
          /\ "data" \notin DOMAIN result.value
          /\ parsed = <<>>
          /\ result.value.rawResponse = call.llmResponse.rawContent
    /\ SchemaViolating =>
          /\ result.value.success = FALSE
          /\ result.value.error.type = "validation_error"

\* C15 happens: a screening whose text was cut off in the middle.
C15_Witness ==
    /\ Unparseable
    /\ call.damage = "truncated"
    /\ Len(call.llmResponse.rawContent) > 100
    /\ call.payload = generateScreeningResult("strong_match", "CAND-001", "JOB-2024-001")
    /\ result.value.error.type = "parse_error"
    /\ result.value.rawResponse = call.llmResponse.rawContent
    /\ parsed = <<>>

----------------------------------------------------------------------------
(* Properties of runResumeScreening (SpecSession) *)

ScreeningDone == pc = "done" /\ call.op = "runResumeScreening"

\* C16: with forceFailure=true the producer returns a parseable payload that
\* violates the schema, and runResumeScreening resolves (it does not throw) to
\* success=false, error.type 'validation_error', error.details the non-empty
\* list of the payload's violations, rawResponse the raw text; data is absent.
C16_ForcedFailureIsValidationError ==
    (ScreeningDone /\ call.forceFailure) =>
        LET payload == malformedResponse(call.resume.candidateId, call.job.jobId)
        IN /\ result.settled = "fulfilled"
           /\ result.value.success = FALSE
           /\ result.value.error.type = "validation_error"
           /\ result.value.error.details # <<>>
           /\ result.value.error.details = Issues(ResumeScreeningSchema, payload, <<>>)
           /\ result.value.rawResponse = Stringify(payload)
           /\ "data" \notin DOMAIN result.value

\* C16 happens: a forced failure for CAND-002, reported with the out-of-range
\* fit_score among its violations.
C16_Witness ==
    /\ ScreeningDone
    /\ call.forceFailure
    /\ call.resume.candidateId = "CAND-002"
    /\ result.value.error.type = "validation_error"
    /\ \E i \in DOMAIN result.value.error.details :
          result.value.error.details[i] = Issue("too_big", <<Key("fit_score")>>)
    /\ JSONParse(result.value.rawResponse) =
          Returns(malformedResponse("CAND-002", "JOB-2024-001"))

\* C21: after any sequence of setCandidateType and resetSimulationState calls,
\* runResumeScreening with forceFailure=false succeeds, and its data has the
\* overall_fit of the candidate type most recently set (strong_match after a
\* reset or when none was set), the resume's candidateId as candidate_id and
\* the job's jobId as job_id.
C21_ScreeningReflectsCandidateType ==
    (ScreeningDone /\ ~call.forceFailure) =>
        /\ result.settled = "fulfilled"
        /\ result.value.success = TRUE
        /\ "error" \notin DOMAIN result.value
        /\ result.value.data.f.overall_fit = Str(currentCandidateType)
        /\ result.value.data.f.candidate_id = Str(call.resume.candidateId)
        /\ result.value.data.f.job_id = Str(call.job.jobId)

\* C21 happens: a screening of CAND-002 run while 'not_qualified' is set, after
\* an earlier simulated LLM call.
C21_Witness ==
    /\ ScreeningDone
    /\ ~call.forceFailure
    /\ currentCandidateType = "not_qualified"
    /\ simulationCallCount = 2
    /\ call.resume.candidateId = "CAND-002"
    /\ result.value.success = TRUE
    /\ result.value.data.f.overall_fit = Str("not_qualified")
    /\ result.value.data.f.candidate_id = Str("CAND-002")

\* C20: the only state shared between calls is the read-only registry.  The
\* outcome of runResumeScreening and of executeAgentFlow is determined by the
\* call's own arguments: it is the outcome the same arguments have in a fresh
\* module, whatever module variables earlier calls have written.
C20_OutcomeDeterminedByArguments ==
    /\ ScreeningDone =>
          result = ScreeningRuns["strong_match", call.resume, call.job,
                                 call.forceFailure].result
    /\ AgentFlowDone =>
          result = Dispatch(simulateLLMFunctionCall(call.screening,
                                                    call.forceInvalidCall),
                            initialToolRegistry).result

----------------------------------------------------------------------------
(* Properties of concurrent calls (SpecConcurrent) *)

\* Call i run alone, on the registry as shipped
Alone(i) ==
    Dispatch(simulateLLMFunctionCall(call[i].screening, call[i].forceInvalidCall),
             initialToolRegistry)

PassesValidation(i) ==
    LET functionCall == simulateLLMFunctionCall(call[i].screening,
                                                call[i].forceInvalidCall)
    IN Parse(SchemaOf(initialToolRegistry[functionCall.function_name].schema),
             functionCall.arguments).ok

\* C19: for any interleaving of two or more concurrent executeAgentFlow calls,
\* each call's result equals the result of the same call run alone, whatever
\* the order in which the calls start and are awaited, and each call that
\* passes validation causes exactly one executor invocation of its own.
C19_ConcurrentCallsIndependent ==
    \A i \in DOMAIN pc :
        pc[i] # "unstarted" =>
            /\ result[i] = Alone(i).result
            /\ Own(i, invoked) = By(i, Alone(i).invoked)
            /\ PassesValidation(i) => Len(Own(i, invoked)) = 1
            /\ ~PassesValidation(i) => Len(Own(i, invoked)) = 0

\* C19 happens: three calls, two of them for the same tool; the third started
\* first and was awaited last, and every call has its own result.
C19_Witness ==
    /\ DOMAIN pc = 1..3
    /\ call[1] = call[3]
    /\ call[1].forceInvalidCall = FALSE
    /\ call[2].forceInvalidCall = TRUE
    /\ pc = <<"awaited", "awaited", "settled">>
    /\ Len(invoked) = 2
    /\ invoked[1].by = 3
    /\ invoked[2].by = 1
    /\ result[1].value.success = TRUE
    /\ result[2].value.error.type = "validation_error"
    /\ result[3] = result[1]

====
